---- MODULE Spec2Model ----
(***************************************************************************)
(* Dependency-ordered parallel build scheduler of flatpak-module-tools:    *)
(* BuildScheduler (build_scheduler.py) and the build-order gate of         *)
(* RpmBuilder (rpm_builder.py).                                            *)
(*                                                                         *)
(* The asyncio event loop is cooperative: a coroutine runs without         *)
(* interruption from one await to the next, so every action below is one   *)
(* such segment of do_build or of a run_build_item task.                   *)
(***************************************************************************)
EXTENDS Integers, Sequences, FiniteSets, TLC

VARIABLES
    entry,          \* who constructs the scheduler: "rpm" (RpmBuilder.build_rpms*) or "direct" (the item injection API)
    latest_builds,  \* the batch: names of the packages to build (keys of latest_builds / items added)
    input,          \* "rpm", before the graph is built: package -> names resolved for its build requirements; else the mapping handed to the constructor
    build_after,    \* BuildScheduler.build_after
    parallel_jobs,  \* BuildScheduler.parallel_jobs
    items,          \* BuildScheduler.items: name -> [state, status]
    running,        \* BuildScheduler.running: the tasks (one per item name) not yet removed by do_build
    waiting_on,     \* the tasks handed to the asyncio.wait call do_build is suspended in
    task,           \* name -> position of the item's run_build_item task
    slots,          \* BuildScheduler.slots (index k here is slot k-1 of the code)
    slot,           \* name -> the local variable slot of its run_build_item (0: none yet)
    calls,          \* name -> how many times build_item was called for the item
    display,        \* BuildSchedulerDisplay.items: the snapshot the display renders
    pc,             \* position of the main line of control
    repo_event,     \* the create_event getRepo reports for the build tag
    last_repo_event,\* RepoWaiter.last_repo_event
    wait_task,      \* RepoWaiter.wait_task: the index of the do_wait task in polls, 0 for None
    polls,          \* the do_wait tasks created so far, in order of creation
    waiter,         \* caller of wait_for_event -> [event, pc, awaits, seen, by]
    ready,          \* the event loop's queue of callbacks ready to run, first in first out
    koji,           \* name -> position and outcome of KojiBuildScheduler.build_item for the item
    mock,           \* name -> position and outcome of MockBuildScheduler.build_item for the item
    repo_lock,      \* MockBuildScheduler.repo_lock: [locked, waiters]
    moves,          \* the items whose RPMs were moved into repo_path, in the order of the moves
    state_log,      \* workdir / "state.log": [exists, lines], a line being its words in order
    log_status,     \* the status update_log_files reports (<<>>: none yet)
    tail,           \* the rebuild of one item and its periodically_update_logfiles task
    watch,          \* watch_koji_task: its position, the task state it saw last, its result
    screen,         \* BuildSchedulerDisplay: its lock and the threads in update_items and render
    build_requires_map,   \* _compute_build_order: package -> its build requirements
    build_after_details,  \* _compute_build_order: package -> name -> details of the resolution
    report,         \* check_for_cycles: the cycles it collected and the ones it printed
    gate            \* RpmBuilder.check: its inputs, need_rebuild, wait_for_event and position

schedVars == <<entry, latest_builds, input, build_after, parallel_jobs, items,
               running, waiting_on, task, slots, slot, calls, display, pc>>

waiterVars == <<repo_event, last_repo_event, wait_task, polls, waiter, ready>>

mockVars == <<mock, repo_lock, moves>>

logVars == <<state_log, log_status>>

backendVars == <<koji, mockVars, logVars>>

builderVars == <<build_requires_map, build_after_details, report, gate>>

otherVars == <<tail, watch, screen, builderVars>>

vars == <<schedVars, waiterVars, backendVars, otherVars>>

---------------------------------------------------------------------------
(* Bounds and program constants *)

Names == {"A", "B", "C"}

\* insertion order of BuildScheduler.items (add_item is called in batch order);
\* "D" and "E" are packages of the larger graphs handed to check_for_cycles
ItemOrder == <<"A", "B", "C", "D", "E">>

\* largest parallel_jobs a direct caller passes
MaxJobs == 2

\* parallel_jobs defaults of the two schedulers RpmBuilder constructs
MockDefaultJobs == 3
KojiDefaultJobs == 5

\* check_for_cycles stops enumerating at this many cycles
CycleCap == 25

States == {"WAITING", "READY", "BUILDING", "DONE", "FAILED"}

EmptyMap == [n \in {} |-> {}]

---------------------------------------------------------------------------
(* Status texts *)

NoStatus == [text |-> "", names |-> {}]
ReadyStatus == [text |-> "Ready", names |-> {}]
\* f"Waiting for: {' '.join(not_ready)}"; the names are kept as a set
WaitingFor(not_ready) == [text |-> "Waiting for: ", names |-> not_ready]
ExitedStatus == [text |-> "Build method exited in RUNNING state", names |-> {}]
ProgressStatus == [text |-> "building", names |-> {}]
SuccessStatus == [text |-> "built successfully", names |-> {}]
FailureStatus == [text |-> "failed", names |-> {}]

\* BuildItem(name): state WAITING, status ""
BuildItem == [state |-> "WAITING", status |-> NoStatus]

---------------------------------------------------------------------------
(* rpm_builder.py: the build-order graph and its cycle check *)

\* _compute_build_order: the resolved names that are in the batch and are not the package itself
ComputeAfter(batch, resolved) ==
    [package \in batch |->
        {required_name \in resolved[package] :
            required_name # package /\ required_name \in batch}]

\* the build requirements get_build_requires returns for a package: none or some
Requirements == {{}, {"buildreq"}}

\* the output of resolve-requires for each package; it is not run for a package
\* without build requirements
ResolveRequires(requires, resolved) ==
    [package \in DOMAIN requires |->
        IF requires[package] = {} THEN {} ELSE resolved[package]]

\* the details resolve-requires gives for required_name: a list whose first
\* entry holds the explanation, the chain from package to required_name
Details(package, required_name) ==
    <<[explanation |-> <<package, required_name>>]>>

\* variant: the package itself is kept among the details
ComputeDetailsKeepSelf(batch, resolved) ==
    [package \in batch |->
        [required_name \in {n \in resolved[package] : n \in batch} |->
            Details(package, required_name)]]

\* _compute_build_order: build_after_details
ComputeDetails(batch, resolved) ==
    [package \in batch |->
        [required_name \in {n \in resolved[package] : n # package /\ n \in batch} |->
            Details(package, required_name)]]

\* details for every edge of a mapping
FullDetails(ba) ==
    [package \in DOMAIN ba |->
        [required_name \in ba[package] |-> Details(package, required_name)]]

\* nodes of the networkx.DiGraph: add_nodes_from(build_after) and the endpoints of add_edge
GraphNodes(ba) == DOMAIN ba \cup UNION {ba[p] : p \in DOMAIN ba}

HasEdge(ba, x, y) == x \in DOMAIN ba /\ y \in ba[x]

\* networkx.simple_cycles: the elementary cycles, self-loops included, each as
\* the sequence of its nodes starting at its first node in ItemOrder
IndexOf(n) == CHOOSE i \in 1..Len(ItemOrder) : ItemOrder[i] = n

SimpleCycles(ba) ==
    LET nodes == GraphNodes(ba)
        cands == UNION {[1..n -> nodes] : n \in 1..Cardinality(nodes)}
    IN {c \in cands :
          /\ \A i, j \in 1..Len(c) : i # j => c[i] # c[j]
          /\ \A i \in 2..Len(c) : IndexOf(c[1]) < IndexOf(c[i])
          /\ \A i \in 1..Len(c) : HasEdge(ba, c[i], c[(i % Len(c)) + 1])}

\* variant: the enumeration is not cut off
NumCollectedUncapped(ba) == Cardinality(SimpleCycles(ba))

\* the number of cycles check_for_cycles has collected when its loop ends
NumCollected(ba) ==
    LET n == Cardinality(SimpleCycles(ba))
    IN IF n > CycleCap THEN CycleCap ELSE n

\* the subsets of S with m elements, built up for small m
RECURSIVE Picks(_, _)
Picks(S, m) ==
    IF m = 0 THEN {{}}
    ELSE UNION {{T \cup {x} : T \in Picks(S \ {x}, m - 1)} : x \in S}

\* the subsets of S with m elements
Subsets(S, m) ==
    IF 2 * m <= Cardinality(S)
    THEN Picks(S, m)
    ELSE {S \ X : X \in Picks(S, Cardinality(S) - m)}

\* the lists `cycles` may be when the loop ends: simple_cycles yields the cycles
\* in an order of its own, and the loop keeps the first NumCollected of them
Collections(ba) == Subsets(SimpleCycles(ba), NumCollected(ba))

\* cycles[0:5]
PrintLimit == 5

\* cycles.sort(key=len) and cycles[0:5]: the sets of cycles that may be printed,
\* the sort leaving cycles of one length in the order of the enumeration
Shortest(cycles) ==
    LET k == IF Cardinality(cycles) > PrintLimit THEN PrintLimit ELSE Cardinality(cycles)
        UpTo(len) == {c \in cycles : Len(c) <= len}
        lens == {Len(c) : c \in cycles}
    IN IF k = 0 THEN {{}}
       ELSE LET last == CHOOSE len \in lens :
                           /\ Cardinality(UpTo(len)) >= k
                           /\ \A l \in lens : l < len => Cardinality(UpTo(l)) < k
                below == {c \in cycles : Len(c) < last}
                ties == {c \in cycles : Len(c) = last}
            IN {below \cup T : T \in Subsets(ties, k - Cardinality(below))}

\* what is printed for a cycle c: each x => y of it with
\* build_after_details[x][y][0]["explanation"]
Explained(c, details) ==
    [cycle |-> c,
     edges |-> [i \in 1..Len(c) |->
                  LET x == c[i]
                      y == c[(i % Len(c)) + 1]
                  IN [x |-> x, y |-> y, explanation |-> details[x][y][1].explanation]]]

\* what check_for_cycles may have collected and printed when it returns or raises
CycleReports(ba, details) ==
    IF Cardinality(DOMAIN ba) = 1
    THEN {[collected |-> {}, printed |-> {}, more |-> FALSE]}
    ELSE UNION {
            {[collected |-> cycles,
              printed |-> {Explained(c, details) : c \in shown},
              more |-> Cardinality(cycles) > PrintLimit] : shown \in Shortest(cycles)}
            : cycles \in Collections(ba)}

\* variant: the single-package shortcut also taken for two packages
check_for_cycles_upto2(ba) ==
    IF Cardinality(DOMAIN ba) <= 2
    THEN FALSE
    ELSE NumCollected(ba) > 0

\* variant: no single-package shortcut
check_for_cycles_always(ba) == NumCollected(ba) > 0

\* TRUE iff check_for_cycles raises ClickException
check_for_cycles(ba) ==
    IF Cardinality(DOMAIN ba) = 1
    THEN FALSE
    ELSE NumCollected(ba) > 0

---------------------------------------------------------------------------
(* BuildScheduler *)

\* BuildScheduler.__init__: self.slots
InitialSlots(jobs) == [i \in 1..jobs |-> FALSE]

\* self.items.values(): the names in insertion order
Order(its) == SelectSeq(ItemOrder, LAMBDA n : n \in DOMAIN its)

\* variant: a dependency that is still BUILDING counts as met
NotReadyAllowsBuilding(its, name) ==
    LET after == IF name \in DOMAIN build_after THEN build_after[name] ELSE {}
    IN {n \in after : n \in DOMAIN its /\ its[n].state \notin {"DONE", "BUILDING"}}

\* variant: a dependency that FAILED counts as met
NotReadyAllowsFailed(its, name) ==
    LET after == IF name \in DOMAIN build_after THEN build_after[name] ELSE {}
    IN {n \in after : n \in DOMAIN its /\ its[n].state \notin {"DONE", "FAILED"}}

\* variant: a name for which no item was added counts as not ready
NotReadyCountsMissing(its, name) ==
    LET after == IF name \in DOMAIN build_after THEN build_after[name] ELSE {}
    IN {n \in after : n \notin DOMAIN its \/ its[n].state # "DONE"}

\* update_running_items: not_ready for one WAITING item
NotReady(its, name) ==
    LET after == IF name \in DOMAIN build_after THEN build_after[name] ELSE {}
    IN {n \in after : n \in DOMAIN its /\ its[n].state # "DONE"}

\* update_running_items, first loop over the items
RECURSIVE ScanWaiting(_, _, _)
ScanWaiting(order, its, num_building) ==
    IF order = <<>>
    THEN [items |-> its, num_building |-> num_building]
    ELSE LET name == Head(order)
             item == its[name]
         IN IF item.state = "WAITING"
            THEN LET not_ready == NotReady(its, name)
                     upd == IF not_ready # {}
                            THEN [item EXCEPT !.status = WaitingFor(not_ready)]
                            ELSE [state |-> "READY", status |-> ReadyStatus]
                 IN ScanWaiting(Tail(order), [its EXCEPT ![name] = upd], num_building)
            ELSE IF item.state = "BUILDING"
            THEN ScanWaiting(Tail(order), its, num_building + 1)
            ELSE ScanWaiting(Tail(order), its, num_building)

\* variant: off by one, num_building + 1 < self.parallel_jobs
BelowLimitOffByOne(num_building) == num_building + 1 < parallel_jobs

\* variant: num_building <= self.parallel_jobs
BelowLimitInclusive(num_building) == num_building <= parallel_jobs

\* update_running_items: num_building < self.parallel_jobs
BelowLimit(num_building) == num_building < parallel_jobs

\* variant: a FAILED item is started again
IsReadyOrFailed(item) == item.state \in {"READY", "FAILED"}

\* update_running_items: item.state == State.READY
IsReady(item) == item.state = "READY"

\* update_running_items, second loop over the items
RECURSIVE StartReady(_, _, _, _)
StartReady(order, its, run, num_building) ==
    IF order = <<>>
    THEN [items |-> its, running |-> run]
    ELSE LET name == Head(order)
         IN IF BelowLimit(num_building) /\ IsReady(its[name])
            THEN StartReady(Tail(order), [its EXCEPT ![name].state = "BUILDING"],
                            run \cup {name}, num_building + 1)
            ELSE StartReady(Tail(order), its, run, num_building)

\* update_running_items: the items and the running set it leaves
update_running_items(its, run) ==
    LET scanned == ScanWaiting(Order(its), its, 0)
    IN StartReady(Order(its), scanned.items, run, scanned.num_building)

\* variant: the display keeps its first snapshot
UpdateItemsNever(disp, its, names) == disp

\* BuildSchedulerDisplay.update_items(items): the entries that differ are replaced by copies
UpdateItems(disp, its, names) ==
    [n \in DOMAIN disp |-> IF n \in names /\ disp[n] # its[n] THEN its[n] ELSE disp[n]]

\* variant: only the state of the item is compared
DiffersByState(old, item) == old.state # item.state

\* update_items: old != item, the dataclass comparison, field by field
Differs(old, item) == old # item

\* variant: the lock is taken whether it is held or not
LockFreeIgnored(lock) == TRUE

\* threading.Lock: `with self.lock` goes on only when no thread holds the lock
LockFree(lock) == lock = "free"

\* variant: the other reading of the condition, state == State.FAILED
NeedUpdateOnlyFailed(state, old) == state = "FAILED" /\ state # old

\* update_item: need_update.  State.DONE is truthy, so
\* (State.DONE or state == State.FAILED) is State.DONE
NeedUpdate(state, old) == state = "DONE" /\ state # old

\* update_item(item, state, status)
update_item(its, run, name, state, status) ==
    LET need_update == NeedUpdate(state, its[name].state)
        its1 == [its EXCEPT ![name] = [state |-> state, status |-> status]]
    IN IF need_update
       THEN update_running_items(its1, run)
       ELSE [items |-> its1, running |-> run]

\* what update_item(item, state, status) shows: all items at the end of
\* update_running_items, or the item alone
update_item_display(disp, its, name, state, r) ==
    IF NeedUpdate(state, its[name].state)
    THEN UpdateItems(disp, r.items, DOMAIN r.items)
    ELSE UpdateItems(disp, r.items, {name})

\* variant: the first slot is taken whether occupied or not
FirstFreeUnchecked(sl) == IF Len(sl) > 0 THEN 1 ELSE 0

\* run_build_item: the index of the first unoccupied slot, 0 if there is none
FirstFree(sl) ==
    IF \E i \in 1..Len(sl) : ~sl[i]
    THEN CHOOSE i \in 1..Len(sl) : ~sl[i] /\ \A j \in 1..(i - 1) : sl[j]
    ELSE 0

\* variant: the item becomes FAILED but update_running_items is not called
AfterBuildItemNoScan(its, run, name) ==
    IF its[name].state = "BUILDING"
    THEN [items |-> [its EXCEPT ![name] = [state |-> "FAILED", status |-> ExitedStatus]],
          running |-> run]
    ELSE [items |-> its, running |-> run]

\* run_build_item after build_item returned: the item still BUILDING becomes FAILED
AfterBuildItem(its, run, name) ==
    IF its[name].state = "BUILDING"
    THEN update_running_items(
            [its EXCEPT ![name] = [state |-> "FAILED", status |-> ExitedStatus]], run)
    ELSE [items |-> its, running |-> run]

\* what run_build_item shows after build_item returned
after_build_item_display(disp, its, name, r) ==
    IF its[name].state = "BUILDING"
    THEN UpdateItems(disp, r.items, DOMAIN r.items)
    ELSE disp

\* variant: the slot is freed whatever the state of the item
ReleaseSlotAlways(sl, state, k) == [sl EXCEPT ![k] = FALSE]

\* run_build_item after build_item returned: the slot is freed or retired
ReleaseSlot(sl, state, k) ==
    IF state = "DONE"
    THEN [sl EXCEPT ![k] = FALSE]
    ELSE Append(sl, FALSE)

\* variant: do_build leaves its loop after the first wait
LoopContinuesOnce(run) == FALSE

\* do_build: while self.running
LoopContinues(run) == run # {}

\* the tasks update_running_items created become scheduled
WithCreated(tk, run, newrun) ==
    [n \in DOMAIN tk |-> IF n \in newrun \ run THEN "created" ELSE tk[n]]

---------------------------------------------------------------------------
(* RepoWaiter *)

\* the callers of wait_for_event: build_item of each koji item calls it once
Waiters == Names

\* the create_event values the repository of the build tag takes
MaxEvent == 10
Events == 8..MaxEvent

\* a caller that has not called wait_for_event.  event: the argument; awaits: the
\* do_wait task it awaits; since: last_repo_event when it began to await it;
\* rounds: the results it was woken with; seen: the value that let it return;
\* by: the task that value came from (0: none)
IdleWaiter ==
    [event |-> 0, pc |-> "idle", awaits |-> 0, since |-> -1, rounds |-> 0,
     seen |-> -1, by |-> 0]

\* variant: wait_for_event returns after the first poll result
ReachedAlways(next_repo_event, event) == TRUE

\* wait_for_event: next_repo_event >= event
Reached(next_repo_event, event) == next_repo_event >= event

\* variant: wait_for_event never waits
MustWaitNever(last, event) == FALSE

\* wait_for_event: self.last_repo_event < event
MustWait(last, event) == last < event

\* variant: get_next_repo_event creates a task on every call
NeedsTaskAlways(wt) == TRUE

\* get_next_repo_event: not self.wait_task
NeedsTask(wt) == wt = 0

\* variant: only the first awaiter of a finished task is woken
WakeupsFirstOnly(t, awaiters) ==
    IF awaiters = <<>> THEN <<>>
    ELSE <<[kind |-> "wake", task |-> t, who |-> Head(awaiters)]>>

\* a finished task schedules the wakeup of its awaiters, in the order they began to await
Wakeups(t, awaiters) ==
    [i \in 1..Len(awaiters) |-> [kind |-> "wake", task |-> t, who |-> awaiters[i]]]

\* get_next_repo_event up to its await, called by w: the task is created if there
\* is none, and w awaits self.wait_task
GetNext(w, e, wt, last, ps, rd, wts) ==
    LET create == NeedsTask(wt)
        t == IF create THEN Len(ps) + 1 ELSE wt
        ps1 == IF create
               THEN Append(ps, [state |-> "scheduled", result |-> -1, awaiters |-> <<>>])
               ELSE ps
    IN [wait_task |-> t,
        polls |-> [ps1 EXCEPT ![t].awaiters = Append(@, w)],
        ready |-> IF create
                  THEN Append(rd, [kind |-> "poll", task |-> t, who |-> ""])
                  ELSE rd,
        waiter |-> [wts EXCEPT ![w] = [event |-> e, pc |-> "awaiting", awaits |-> t,
                                       since |-> last, rounds |-> wts[w].rounds,
                                       seen |-> -1, by |-> 0]]]

\* no RepoWaiter is in use
NoRepoWaiter ==
    /\ repo_event = 0
    /\ last_repo_event = -1
    /\ wait_task = 0
    /\ polls = <<>>
    /\ waiter = [w \in Waiters |-> IdleWaiter]
    /\ ready = <<>>

---------------------------------------------------------------------------
(* The backends *)

\* an item whose KojiBuildScheduler.build_item was not called
NoKojiItem == [pc |-> "none", state |-> "WAITING", observed |-> "", tag_event |-> 0]

\* koji.TASK_STATES
TaskStates == {"FREE", "OPEN", "CLOSED", "CANCELED", "ASSIGNED", "FAILED"}

\* variant: a canceled task is polled again
KojiOutcomeCanceledAgain(state) ==
    CASE state = "FAILED" -> "failed"
      [] state = "CLOSED" -> "closed"
      [] OTHER -> "again"

\* KojiBuildScheduler.build_item: where the poll loop goes for a task state
KojiOutcome(state) ==
    CASE state \in {"FAILED", "CANCELED"} -> "failed"
      [] state = "CLOSED" -> "closed"
      [] OTHER -> "again"

\* KojiBuildScheduler.build_item after wait_for_event returned: U(State.DONE, ...)
KojiContinue(k, wts) ==
    [n \in Names |->
        IF k[n].pc = "wait_for_event" /\ wts[n].pc = "returned"
        THEN [k[n] EXCEPT !.pc = "returned", !.state = "DONE"]
        ELSE k[n]]

\* an item whose MockBuildScheduler.build_item has not left the mock rebuild.
\* returncode: of the rebuild (-1: still running); cleaned: mock --clean was run;
\* indexed: the createrepo run of the item has completed; debug: the slot the
\* debug messages name (0: no debug messages)
NoMockItem ==
    [pc |-> "build", returncode |-> -1, cleaned |-> FALSE, indexed |-> FALSE, debug |-> 0]

\* status="Build failed"
MockFailureStatus == [text |-> "Build failed", names |-> {}]

\* asyncio.Lock() as constructed
FreeLock == [locked |-> FALSE, waiters |-> <<>>]

\* variant: a free lock is taken though tasks are queued for it
CanAcquireUnlocked(lock) == ~lock.locked

\* asyncio.Lock.acquire: the lock is taken at once if it is free and no task is queued
CanAcquire(lock) == ~lock.locked /\ lock.waiters = <<>>

\* asyncio.Lock.acquire, the lock taken at once
Acquired(lock) == [lock EXCEPT !.locked = TRUE]

\* asyncio.Lock.acquire, the caller queued behind the lock
Queued(lock, x) == [lock EXCEPT !.waiters = Append(@, [who |-> x, woken |-> FALSE])]

\* asyncio.Lock.acquire resumed: the woken task leaves the queue and holds the lock
Resumed(lock) == [locked |-> TRUE, waiters |-> Tail(lock.waiters)]

\* asyncio.Lock.release: the first queued task is woken
Release(lock) ==
    [locked |-> FALSE,
     waiters |-> IF lock.waiters = <<>>
                 THEN <<>>
                 ELSE [lock.waiters EXCEPT ![1].woken = TRUE]]

\* variant: the rebuild is taken to have succeeded whatever it returned
MockSucceededAlways(returncode) == TRUE

\* MockBuildScheduler.build_item: returncode == 0
MockSucceeded(returncode) == returncode = 0

\* MockBuildScheduler.build_item holding repo_lock: the RPMs are moved, the lock
\* is released, and createrepo() takes the lock or queues for it
MoveThenCreaterepo(x, held) ==
    LET released == Release(held)
    IN /\ moves' = Append(moves, x)
       /\ IF CanAcquire(released)
          THEN /\ repo_lock' = Acquired(released)
               /\ mock' = [mock EXCEPT ![x].pc = "createrepo"]
          ELSE /\ repo_lock' = Queued(released, x)
               /\ mock' = [mock EXCEPT ![x].pc = "wait_createrepo"]

\* update_log_files has not run
NoLog ==
    /\ state_log = [exists |-> FALSE, lines |-> <<>>]
    /\ log_status = <<>>

\* the words the regular expression of update_log_files looks for
Markers == {"Start:", "Finish:"}

\* re.match(r'^.*?(Start|Finish):\s*(.*?)\s*$', line): the first marker of the
\* line decides, and the words after it are the name; kind "" if no marker
Match(line) ==
    IF \E i \in 1..Len(line) : line[i] \in Markers
    THEN LET i == CHOOSE i \in 1..Len(line) :
                      line[i] \in Markers /\ \A j \in 1..(i - 1) : line[j] \notin Markers
         IN [kind |-> line[i], name |-> SubSeq(line, i + 1, Len(line))]
    ELSE [kind |-> "", name |-> <<>>]

\* variant: a Finish line pops whatever is on top
PopsAlways(state_stack, name) == Len(state_stack) > 0

\* update_log_files: len(state_stack) > 0 and m.group(2) == state_stack[-1]
Pops(state_stack, name) ==
    Len(state_stack) > 0 /\ name = state_stack[Len(state_stack)]

\* update_log_files: the loop over the lines of state.log
RECURSIVE ReadStateLog(_, _)
ReadStateLog(lines, state_stack) ==
    IF lines = <<>>
    THEN state_stack
    ELSE LET m == Match(Head(lines))
         IN ReadStateLog(
                Tail(lines),
                CASE m.kind = "Start:" -> Append(state_stack, m.name)
                  [] m.kind = "Finish:" /\ Pops(state_stack, m.name) ->
                        SubSeq(state_stack, 1, Len(state_stack) - 1)
                  [] OTHER -> state_stack)

\* status="Building"
BuildingStatus == <<"Building">>

\* update_log_files: the status it reports
LogStatus(log) ==
    IF ~log.exists
    THEN BuildingStatus
    ELSE LET state_stack == ReadStateLog(log.lines, <<>>)
         IN IF Len(state_stack) > 0 THEN state_stack[Len(state_stack)] ELSE BuildingStatus

\* no rebuild is followed, no task watched, no thread in the display, and
\* RpmBuilder has computed and checked nothing
\* tail.pc: where build_item is for the followed item ("wait_proc": in await
\* proc.wait()); proc: the mock process; task: the periodically_update_logfiles
\* task; periodic: the update_log_files calls of that task; after_cancel: those
\* made after cancel(); final: the calls build_item made itself; at_exit: the
\* status the log gave when the process exited; before: log_status when
\* proc.wait() returned; reported: the statuses U() was given from there on
NoTail ==
    [pc |-> "none", proc |-> "none", returncode |-> -1, task |-> "none",
     periodic |-> 0, after_cancel |-> 0, final |-> 0,
     at_exit |-> <<>>, before |-> <<>>, reported |-> <<>>]
\* watch_koji_task is not running.  task, children: the states koji holds for the
\* task and its children ("" for a child that does not exist); task_info,
\* task_children: what WatcherDisplay.query read last; result: the return value
NoWatch ==
    [pc |-> "none", task |-> "", children |-> <<>>, task_info |-> "",
     task_children |-> <<>>, result |-> ""]
\* screen.lock: who holds BuildSchedulerDisplay.lock; upd, names, todo, changed:
\* the thread in update_items (after its return: the call that returned last),
\* its argument, the items its loop has not reached, its local changed; rnd,
\* rnd_todo, printed: the thread in render, the items it has not printed, what
\* it printed.  The rest is kept for the properties: before (the snapshot when
\* the call took the lock), differed (an incoming item differed from its stored
\* copy then), settled (the items not assigned to since a call that held them
\* returned), repeat (the items of the call were all settled), whole (the
\* snapshots between calls since render took the lock), partial (render was
\* called while a call was half applied)
NoScreen ==
    [lock |-> "free",
     upd |-> "idle", names |-> {}, todo |-> <<>>, changed |-> FALSE,
     before |-> EmptyMap, differed |-> FALSE, settled |-> {}, repeat |-> FALSE,
     rnd |-> "idle", rnd_todo |-> <<>>, printed |-> EmptyMap, whole |-> {},
     partial |-> FALSE]
NoReport == [pc |-> "none", collected |-> {}, printed |-> {}, more |-> FALSE]
\* RpmBuilder.check is not running.  source, tagged, local: for each resolved
\* package the version in the source tag, the latest build in the destination
\* tag (version 0: none; create_event 0: None) and the version in the local
\* repository (0: none); need_rebuild, wait_for_event: what _check_packages
\* returned; polls: the getRepo calls made, counted up to 2
NoGate ==
    [pc |-> "none", include_localrepo |-> FALSE, allow_outdated |-> FALSE,
     source |-> EmptyMap, tagged |-> EmptyMap, local |-> EmptyMap,
     need_rebuild |-> {}, wait_for_event |-> -1, polls |-> 0]

NoTools ==
    /\ tail = NoTail
    /\ watch = NoWatch
    /\ screen = NoScreen
    /\ gate = NoGate

NoBuilder ==
    /\ build_requires_map = EmptyMap
    /\ build_after_details = EmptyMap
    /\ report = NoReport

NoOther == NoTools /\ NoBuilder

\* no backend is in use
NoBackend ==
    /\ koji = [n \in Names |-> NoKojiItem]
    /\ mock = [n \in Names |-> NoMockItem]
    /\ repo_lock = FreeLock
    /\ moves = <<>>
    /\ NoLog

---------------------------------------------------------------------------
(* Initial states *)

NoTasks == [n \in Names |-> "none"]
NoSlot == [n \in Names |-> 0]
NoCalls == [n \in Names |-> 0]

\* the mappings a direct caller may pass for a batch
Mappings(batch) == UNION {[keys -> SUBSET Names] : keys \in SUBSET batch}

InitRpm ==
    /\ entry = "rpm"
    /\ latest_builds \in SUBSET Names \ {{}}
    /\ input \in [latest_builds -> SUBSET Names]
    /\ build_requires_map \in [latest_builds -> Requirements]
    /\ \A package \in latest_builds :
          build_requires_map[package] = {} => input[package] = {}
    /\ build_after_details = EmptyMap
    /\ report = NoReport
    /\ build_after = EmptyMap
    /\ parallel_jobs \in {MockDefaultJobs, KojiDefaultJobs}
    /\ items = EmptyMap
    /\ slots = <<>>
    /\ pc = "compute_build_order"

InitDirect ==
    /\ entry = "direct"
    /\ latest_builds \in SUBSET Names \ {{}}
    /\ input \in Mappings(latest_builds)
    /\ build_after = input
    /\ parallel_jobs \in 1..MaxJobs
    /\ items = [n \in latest_builds |-> BuildItem]
    /\ slots = InitialSlots(parallel_jobs)
    /\ pc = "constructed"
    /\ NoBuilder

Init ==
    /\ InitRpm \/ InitDirect
    /\ running = {}
    /\ waiting_on = {}
    /\ task = NoTasks
    /\ slot = NoSlot
    /\ calls = NoCalls
    /\ display = EmptyMap
    /\ NoRepoWaiter
    /\ NoBackend
    /\ NoTools

---------------------------------------------------------------------------
(* Actions *)

\* RpmBuilder._compute_build_order, then the scheduler is constructed and the items added
ComputeBuildOrder ==
    /\ pc = "compute_build_order"
    /\ LET resolved == ResolveRequires(build_requires_map, input)
           ba == ComputeAfter(latest_builds, resolved)
           details == ComputeDetails(latest_builds, resolved)
       IN /\ build_after_details' = details
          /\ \E r \in CycleReports(ba, details) :
                report' = [pc |-> IF check_for_cycles(ba) THEN "raised" ELSE "returned",
                           collected |-> r.collected, printed |-> r.printed,
                           more |-> r.more]
          /\ IF check_for_cycles(ba)
             THEN /\ pc' = "cycle_error"
                  /\ UNCHANGED <<input, build_after, items, slots, build_requires_map>>
             ELSE /\ pc' = "constructed"
                  /\ input' = ba
                  /\ build_requires_map' = EmptyMap
                  /\ build_after' = ba
                  /\ items' = [n \in latest_builds |-> BuildItem]
                  /\ slots' = InitialSlots(parallel_jobs)
    /\ UNCHANGED <<entry, latest_builds, parallel_jobs, running, waiting_on, task, slot, calls,
                   display>>
    /\ UNCHANGED <<waiterVars, backendVars, tail, watch, screen, gate>>

\* build() / do_build up to its first await
StartBuild ==
    /\ pc = "constructed"
    /\ LET r == update_running_items(items, running)
       IN /\ items' = r.items
          /\ running' = r.running
          /\ display' = UpdateItems(items, r.items, DOMAIN r.items)
          /\ task' = WithCreated(task, running, r.running)
          /\ IF LoopContinues(r.running)
             THEN pc' = "waiting" /\ waiting_on' = r.running
             ELSE pc' = "returned" /\ waiting_on' = {}
    /\ UNCHANGED <<entry, latest_builds, input, build_after, parallel_jobs, slots, slot, calls>>
    /\ UNCHANGED <<waiterVars, backendVars, otherVars>>

\* run_build_item from its start to the first await of build_item: the slot is
\* allocated (or the assertion fails), and build_item reports its first status
\* (U(State.BUILDING, status=...) or U(status=...)) before it first awaits
TaskStart(name) ==
    /\ pc = "waiting"
    /\ task[name] = "created"
    /\ LET k == FirstFree(slots)
       IN IF k = 0
          THEN /\ task' = [task EXCEPT ![name] = "raised"]
               /\ UNCHANGED <<items, running, slots, slot, calls, display>>
          ELSE LET r == update_item(items, running, name, "BUILDING", ProgressStatus)
               IN /\ items' = r.items
                  /\ running' = r.running
                  /\ display' = update_item_display(display, items, name, "BUILDING", r)
                  /\ task' = [WithCreated(task, running, r.running) EXCEPT ![name] = "running"]
                  /\ slots' = [slots EXCEPT ![k] = TRUE]
                  /\ slot' = [slot EXCEPT ![name] = k]
                  /\ calls' = [calls EXCEPT ![name] = @ + 1]
    /\ UNCHANGED <<entry, latest_builds, input, build_after, parallel_jobs, waiting_on, pc>>
    /\ UNCHANGED <<waiterVars, backendVars, otherVars>>

\* build_item ends by reporting `state`, then run_build_item runs to its end
Finish(name, state, status) ==
    LET r1 == update_item(items, running, name, state, status)
        r2 == AfterBuildItem(r1.items, r1.running, name)
    IN /\ items' = r2.items
       /\ running' = r2.running
       /\ display' = after_build_item_display(
                         update_item_display(display, items, name, state, r1),
                         r1.items, name, r2)
       /\ task' = [WithCreated(task, running, r2.running) EXCEPT ![name] = "finished"]
       /\ slots' = ReleaseSlot(slots, r2.items[name].state, slot[name])
       /\ UNCHANGED <<entry, latest_builds, input, build_after, parallel_jobs,
                      waiting_on, slot, calls, pc>>
       /\ UNCHANGED waiterVars

\* build_item: U(State.DONE, ...) and return
BuildDone(name) ==
    /\ pc = "waiting"
    /\ task[name] = "running"
    /\ Finish(name, "DONE", SuccessStatus)
    /\ UNCHANGED <<backendVars, otherVars>>

\* build_item: U(State.FAILED, ...) and return
BuildFailed(name) ==
    /\ pc = "waiting"
    /\ task[name] = "running"
    /\ Finish(name, "FAILED", FailureStatus)
    /\ UNCHANGED <<backendVars, otherVars>>

\* build_item returns without having reported DONE or FAILED
BuildReturn(name) ==
    /\ pc = "waiting"
    /\ task[name] = "running"
    /\ items[name].state = "BUILDING"
    /\ Finish(name, items[name].state, items[name].status)
    /\ UNCHANGED <<backendVars, otherVars>>

\* MockBuildScheduler.build_item, repo item: 'fedpkg srpm' failed, U(State.FAILED, ...),
\* and the method goes on with the location the log names: U(status=str(workdir)),
\* then it awaits the mock process
BuildFailedContinue(name) ==
    /\ pc = "waiting"
    /\ task[name] = "running"
    /\ items[name].state = "BUILDING"
    /\ LET r1 == update_item(items, running, name, "FAILED", FailureStatus)
           r == update_item(r1.items, r1.running, name, r1.items[name].state, ProgressStatus)
       IN /\ items' = r.items
          /\ running' = r.running
          /\ display' = update_item_display(
                            update_item_display(display, items, name, "FAILED", r1),
                            r1.items, name, r1.items[name].state, r)
          /\ task' = WithCreated(task, running, r.running)
    /\ UNCHANGED <<entry, latest_builds, input, build_after, parallel_jobs,
                   waiting_on, slots, slot, calls, pc>>
    /\ UNCHANGED <<waiterVars, backendVars, otherVars>>

\* an exception escapes build_item
BuildRaise(name) ==
    /\ pc = "waiting"
    /\ task[name] = "running"
    /\ task' = [task EXCEPT ![name] = "raised"]
    /\ UNCHANGED <<entry, latest_builds, input, build_after, parallel_jobs, items,
                   running, waiting_on, slots, slot, calls, display, pc>>
    /\ UNCHANGED <<waiterVars, backendVars, otherVars>>

\* do_build: asyncio.wait returns the finished tasks of the set it was given
Completed(tasks) == {n \in tasks : task[n] \in {"finished", "raised"}}

\* variant: the exceptions of the done tasks are not looked at
HasExceptionIgnored(done) == FALSE

\* do_build: task.exception() is set for one of the done tasks
HasException(done) == \E n \in done : task[n] = "raised"

\* do_build: one of the done tasks holds an exception, which is raised
WaitRaise ==
    /\ pc = "waiting"
    /\ HasException(Completed(waiting_on))
    /\ pc' = "raised"
    /\ UNCHANGED <<entry, latest_builds, input, build_after, parallel_jobs, items,
                   running, waiting_on, task, slots, slot, calls, display>>
    /\ UNCHANGED <<waiterVars, backendVars, otherVars>>

\* do_build: self.running -= done, and the loop test
WaitDone ==
    /\ pc = "waiting"
    /\ Completed(waiting_on) # {}
    /\ ~HasException(Completed(waiting_on))
    /\ running' = running \ Completed(waiting_on)
    /\ IF LoopContinues(running')
       THEN pc' = "waiting" /\ waiting_on' = running'
       ELSE pc' = "returned" /\ waiting_on' = {}
    /\ UNCHANGED <<entry, latest_builds, input, build_after, parallel_jobs, items,
                   task, slots, slot, calls, display>>
    /\ UNCHANGED <<waiterVars, backendVars, otherVars>>

Next ==
    \/ ComputeBuildOrder
    \/ StartBuild
    \/ \E name \in Names : TaskStart(name)
    \/ \E name \in Names : BuildDone(name)
    \/ \E name \in Names : BuildFailed(name)
    \/ \E name \in Names : BuildReturn(name)
    \/ \E name \in Names : BuildFailedContinue(name)
    \/ \E name \in Names : BuildRaise(name)
    \/ WaitRaise
    \/ WaitDone

Spec == Init /\ [][Next]_vars

---------------------------------------------------------------------------
(* check_for_cycles applied to any mapping, next to the runs above *)

AllMappings == UNION {[keys -> SUBSET Names] : keys \in SUBSET Names}

\* four packages that all build after each other and after themselves, and a
\* fifth package "E" that "A" builds after and that builds after "A", without
\* and with building after itself: mappings with as many simple cycles as
\* check_for_cycles collects, and with one more
LargeMappings ==
    LET four == {"A", "B", "C", "D"}
        base == [package \in four \cup {"E"} |->
                    IF package = "E" THEN {"A"}
                    ELSE IF package = "A" THEN four \cup {"E"}
                    ELSE four]
    IN {base, [base EXCEPT !["E"] = {"A", "E"}]}

InitCheck ==
    /\ entry = "check"
    /\ latest_builds = {}
    /\ input \in AllMappings \cup LargeMappings
    /\ build_requires_map = EmptyMap
    /\ build_after_details = FullDetails(input)
    /\ report = NoReport
    /\ NoTools
    /\ build_after = EmptyMap
    /\ parallel_jobs = 0
    /\ items = EmptyMap
    /\ slots = <<>>
    /\ pc = "check_for_cycles"
    /\ running = {}
    /\ waiting_on = {}
    /\ task = NoTasks
    /\ slot = NoSlot
    /\ calls = NoCalls
    /\ display = EmptyMap
    /\ NoRepoWaiter
    /\ NoBackend

\* check_for_cycles(build_after, build_after_details) returns or raises
CheckForCycles ==
    /\ pc = "check_for_cycles"
    /\ pc' = IF check_for_cycles(input) THEN "cycle_error" ELSE "no_cycles"
    /\ \E r \in CycleReports(input, build_after_details) :
          report' = [pc |-> IF check_for_cycles(input) THEN "raised" ELSE "returned",
                     collected |-> r.collected, printed |-> r.printed, more |-> r.more]
    /\ UNCHANGED <<entry, latest_builds, input, build_after, parallel_jobs, items,
                   running, waiting_on, task, slots, slot, calls, display>>
    /\ UNCHANGED <<waiterVars, backendVars, tail, watch, screen, gate,
                   build_requires_map, build_after_details>>

SpecCycles == (Init \/ InitCheck) /\ [][Next \/ CheckForCycles]_vars

---------------------------------------------------------------------------
(* RepoWaiter: the callers of wait_for_event, the do_wait task, the repository *)

\* a RepoWaiter as KojiBuildScheduler.__init__ constructs it, and no scheduler run
InitWaiter ==
    /\ entry = "waiter"
    /\ latest_builds = {}
    /\ input = EmptyMap
    /\ build_after = EmptyMap
    /\ parallel_jobs = 0
    /\ pc = "repo_waiter"
    /\ items = EmptyMap
    /\ slots = <<>>
    /\ running = {}
    /\ waiting_on = {}
    /\ task = NoTasks
    /\ slot = NoSlot
    /\ calls = NoCalls
    /\ display = EmptyMap
    /\ NoBackend
    /\ NoOther
    /\ repo_event \in Events
    /\ last_repo_event = -1
    /\ wait_task = 0
    /\ polls = <<>>
    /\ waiter = [w \in Waiters |-> IdleWaiter]
    /\ ready = <<>>

\* koji regenerates the repository of the tag: getRepo reports a later create_event
RepoRegenerated ==
    /\ pc = "repo_waiter"
    /\ \E e \in Events : e > repo_event /\ repo_event' = e
    /\ UNCHANGED <<last_repo_event, wait_task, polls, waiter, ready>>
    /\ UNCHANGED schedVars
    /\ UNCHANGED <<backendVars, otherVars>>

\* wait_for_event(event) called by w, to its first await or to its return
CallWaitForEvent(w, event) ==
    /\ IF MustWait(last_repo_event, event)
       THEN LET r == GetNext(w, event, wait_task, last_repo_event, polls, ready, waiter)
            IN /\ wait_task' = r.wait_task
               /\ polls' = r.polls
               /\ ready' = r.ready
               /\ waiter' = r.waiter
       ELSE /\ waiter' = [waiter EXCEPT ![w] =
                             [event |-> event, pc |-> "returned", awaits |-> 0,
                              since |-> last_repo_event, rounds |-> 0,
                              seen |-> last_repo_event, by |-> 0]]
            /\ UNCHANGED <<wait_task, polls, ready>>
    /\ UNCHANGED <<repo_event, last_repo_event>>

\* wait_for_event(event) from the call to its first await, or to its return
WaitForEvent(w, event) ==
    /\ pc = "repo_waiter"
    /\ waiter[w].pc = "idle"
    /\ CallWaitForEvent(w, event)
    /\ UNCHANGED schedVars
    /\ UNCHANGED <<backendVars, otherVars>>

\* one pass of the loop of do_wait for task t: getRepo, then return or sleep
DoWaitPass(t, rd) ==
    IF repo_event # last_repo_event
    THEN /\ wait_task' = 0
         /\ last_repo_event' = repo_event
         /\ polls' = [polls EXCEPT ![t].state = "done", ![t].result = repo_event]
         /\ ready' = rd \o Wakeups(t, polls[t].awaiters)
         /\ waiter' = [w \in Waiters |->
                          IF waiter[w].pc = "awaiting" /\ waiter[w].awaits = t
                          THEN [waiter[w] EXCEPT !.pc = "woken"]
                          ELSE waiter[w]]
    ELSE /\ polls' = [polls EXCEPT ![t].state = "sleeping"]
         /\ ready' = rd
         /\ UNCHANGED <<wait_task, last_repo_event, waiter>>

\* the do_wait task created by asyncio.create_task runs its first pass
DoWaitStart ==
    /\ pc = "repo_waiter"
    /\ ready # <<>>
    /\ Head(ready).kind = "poll"
    /\ DoWaitPass(Head(ready).task, Tail(ready))
    /\ UNCHANGED repo_event
    /\ UNCHANGED schedVars
    /\ UNCHANGED <<backendVars, otherVars>>

\* asyncio.sleep(20) of do_wait is over and the task runs its next pass
DoWaitRetry(t) ==
    /\ pc = "repo_waiter"
    /\ polls[t].state = "sleeping"
    /\ DoWaitPass(t, ready)
    /\ UNCHANGED repo_event
    /\ UNCHANGED schedVars
    /\ UNCHANGED <<backendVars, otherVars>>

\* wait_for_event resumes with the result of the task it awaited
WaitForEventResume ==
    /\ pc = "repo_waiter"
    /\ ready # <<>>
    /\ Head(ready).kind = "wake"
    /\ LET w == Head(ready).who
           t == Head(ready).task
           next_repo_event == polls[t].result
           woken == [waiter EXCEPT ![w].rounds = @ + 1]
       IN IF Reached(next_repo_event, waiter[w].event)
          THEN /\ waiter' = [woken EXCEPT ![w].pc = "returned",
                                          ![w].seen = next_repo_event,
                                          ![w].by = t]
               /\ ready' = Tail(ready)
               /\ UNCHANGED <<wait_task, polls>>
          ELSE LET r == GetNext(w, waiter[w].event, wait_task, last_repo_event,
                                polls, Tail(ready), woken)
               IN /\ wait_task' = r.wait_task
                  /\ polls' = r.polls
                  /\ ready' = r.ready
                  /\ waiter' = r.waiter
    /\ UNCHANGED <<repo_event, last_repo_event>>
    /\ UNCHANGED schedVars
    /\ koji' = KojiContinue(koji, waiter')
    /\ UNCHANGED <<mockVars, logVars, otherVars>>

NextWaiter ==
    \/ RepoRegenerated
    \/ \E w \in Waiters, event \in Events : WaitForEvent(w, event)
    \/ DoWaitStart
    \/ \E t \in 1..Len(polls) : DoWaitRetry(t)
    \/ WaitForEventResume

SpecWaiter == InitWaiter /\ [][NextWaiter]_vars

\* the event loop runs every callback it has scheduled and every timer that is
\* due: a created do_wait task starts, a sleeping one wakes after its 20
\* seconds, and the awaiter of a finished task is resumed
SpecWaiterFair ==
    /\ SpecWaiter
    /\ WF_vars(DoWaitStart)
    /\ WF_vars(\E t \in 1..Len(polls) : DoWaitRetry(t))
    /\ WF_vars(WaitForEventResume)

---------------------------------------------------------------------------
(* KojiBuildScheduler.build_item: the poll loop and the wait for the repository *)

\* the run_build_item tasks of a KojiBuildScheduler have called build_item
InitKoji ==
    /\ entry = "koji"
    /\ latest_builds = Names
    /\ input = EmptyMap
    /\ build_after = EmptyMap
    /\ parallel_jobs = KojiDefaultJobs
    /\ pc = "repo_waiter"
    /\ items = EmptyMap
    /\ slots = <<>>
    /\ running = {}
    /\ waiting_on = {}
    /\ task = NoTasks
    /\ slot = NoSlot
    /\ calls = NoCalls
    /\ display = EmptyMap
    /\ repo_event \in Events
    /\ last_repo_event = -1
    /\ wait_task = 0
    /\ polls = <<>>
    /\ waiter = [w \in Waiters |-> IdleWaiter]
    /\ ready = <<>>
    /\ koji = [n \in Names |-> [NoKojiItem EXCEPT !.pc = "start", !.state = "BUILDING"]]
    /\ mock = [n \in Names |-> NoMockItem]
    /\ repo_lock = FreeLock
    /\ moves = <<>>
    /\ NoLog
    /\ NoOther

\* build_item from its start, or from the end of asyncio.sleep(20), through one
\* pass of the poll loop that observes the task in `state`; for CLOSED, on through
\* listTagged (create_event) to the await in wait_for_event, or to the end
KojiPoll(n, state, create_event) ==
    /\ pc = "repo_waiter"
    /\ koji[n].pc \in {"start", "sleeping"}
    /\ LET outcome == KojiOutcome(state)
       IN CASE outcome = "failed" ->
                 /\ koji' = [koji EXCEPT ![n] = [pc |-> "returned", state |-> "FAILED",
                                                 observed |-> state, tag_event |-> 0]]
                 /\ UNCHANGED waiterVars
            [] outcome = "again" ->
                 /\ koji' = [koji EXCEPT ![n] = [pc |-> "sleeping", state |-> "BUILDING",
                                                 observed |-> state, tag_event |-> 0]]
                 /\ UNCHANGED waiterVars
            [] outcome = "closed" ->
                 /\ CallWaitForEvent(n, create_event)
                 /\ koji' = KojiContinue(
                               [koji EXCEPT ![n] = [pc |-> "wait_for_event",
                                                    state |-> "BUILDING",
                                                    observed |-> state,
                                                    tag_event |-> create_event]],
                               waiter')
    /\ UNCHANGED schedVars
    /\ UNCHANGED <<mockVars, logVars, otherVars>>

NextKoji ==
    \/ RepoRegenerated
    \/ \E n \in Names, state \in TaskStates, create_event \in Events :
          KojiPoll(n, state, create_event)
    \/ DoWaitStart
    \/ \E t \in 1..Len(polls) : DoWaitRetry(t)
    \/ WaitForEventResume

SpecKoji == InitKoji /\ [][NextKoji]_vars

---------------------------------------------------------------------------
(* MockBuildScheduler.build_item: the rebuild, the move into the repository, createrepo *)

\* the build-after graphs of the local runs
MockGraphs ==
    {EmptyMap, [n \in {"C"} |-> {"A", "B"}], [n \in {"B", "C"} |-> {"A"}]}

\* the exit codes of the mock and createrepo_c processes
ReturnCodes == {0, 1}

\* a MockBuildScheduler as build_rpms_local constructs it, the items added
InitMock ==
    /\ entry = "mock"
    /\ latest_builds = Names
    /\ input \in MockGraphs
    /\ build_after = input
    /\ parallel_jobs = MockDefaultJobs
    /\ items = [n \in latest_builds |-> BuildItem]
    /\ slots = InitialSlots(parallel_jobs)
    /\ pc = "constructed"
    /\ running = {}
    /\ waiting_on = {}
    /\ task = NoTasks
    /\ slot = NoSlot
    /\ calls = NoCalls
    /\ display = EmptyMap
    /\ NoRepoWaiter
    /\ NoBackend
    /\ NoOther

\* the rebuild has exited: proc.wait() returns.  On 0, U(status="cleaning
\* buildroot") and the cleanup process is started; otherwise mock --print-root,
\* U(State.FAILED, "Build failed", debug_messages) and build_item returns
MockExit(x, returncode) ==
    /\ pc = "waiting"
    /\ task[x] = "running"
    /\ mock[x].pc = "build"
    /\ IF MockSucceeded(returncode)
       THEN /\ mock' = [mock EXCEPT ![x].pc = "cleaning",
                                    ![x].returncode = returncode,
                                    ![x].cleaned = TRUE]
            /\ UNCHANGED schedVars
       ELSE /\ mock' = [mock EXCEPT ![x].pc = "failed",
                                    ![x].returncode = returncode,
                                    ![x].debug = slot[x]]
            /\ Finish(x, "FAILED", MockFailureStatus)
    /\ UNCHANGED <<koji, repo_lock, moves, logVars, otherVars>>
    /\ UNCHANGED waiterVars

\* the cleanup process has exited: U(status="moving result RPMS"), and
\* repo_lock is taken or queued for
MockCleaned(x) ==
    /\ pc = "waiting"
    /\ task[x] = "running"
    /\ mock[x].pc = "cleaning"
    /\ IF CanAcquire(repo_lock)
       THEN MoveThenCreaterepo(x, Acquired(repo_lock))
       ELSE /\ repo_lock' = Queued(repo_lock, x)
            /\ mock' = [mock EXCEPT ![x].pc = "wait_move"]
            /\ UNCHANGED moves
    /\ UNCHANGED <<koji, logVars, otherVars>>
    /\ UNCHANGED schedVars
    /\ UNCHANGED waiterVars

\* the task woken by the release of repo_lock runs: it holds the lock, and
\* moves its RPMs or starts createrepo_c
MockLockAcquired(x) ==
    /\ pc = "waiting"
    /\ repo_lock.waiters # <<>>
    /\ Head(repo_lock.waiters) = [who |-> x, woken |-> TRUE]
    /\ IF mock[x].pc = "wait_move"
       THEN MoveThenCreaterepo(x, Resumed(repo_lock))
       ELSE /\ repo_lock' = Resumed(repo_lock)
            /\ mock' = [mock EXCEPT ![x].pc = "createrepo"]
            /\ UNCHANGED moves
    /\ UNCHANGED <<koji, logVars, otherVars>>
    /\ UNCHANGED schedVars
    /\ UNCHANGED waiterVars

\* createrepo_c has exited.  On 0 the lock is released, U(State.DONE, "Built
\* successfully") and build_item returns; otherwise sys.exit(1) ends the run
MockCreaterepoExit(x, returncode) ==
    /\ pc = "waiting"
    /\ task[x] = "running"
    /\ mock[x].pc = "createrepo"
    /\ repo_lock' = Release(repo_lock)
    /\ IF returncode = 0
       THEN /\ mock' = [mock EXCEPT ![x].pc = "done", ![x].indexed = TRUE]
            /\ Finish(x, "DONE", SuccessStatus)
       ELSE /\ mock' = [mock EXCEPT ![x].pc = "exited"]
            /\ pc' = "exited"
            /\ UNCHANGED <<entry, latest_builds, input, build_after, parallel_jobs, items,
                           running, waiting_on, task, slots, slot, calls, display>>
            /\ UNCHANGED waiterVars
    /\ UNCHANGED <<koji, moves, logVars, otherVars>>

\* repo item: 'fedpkg srpm' failed, U(State.FAILED, ...), and build_item goes on
MockSrpmFailed(x) ==
    /\ mock[x].pc = "build"
    /\ BuildFailedContinue(x)

\* repo item: no "Wrote:" line in the log of 'fedpkg srpm', RuntimeError
MockSrpmRaise(x) ==
    /\ mock[x].pc = "build"
    /\ BuildRaise(x)

NextMock ==
    \/ StartBuild
    \/ \E x \in Names : TaskStart(x)
    \/ \E x \in Names : MockSrpmFailed(x)
    \/ \E x \in Names : MockSrpmRaise(x)
    \/ \E x \in Names, returncode \in ReturnCodes : MockExit(x, returncode)
    \/ \E x \in Names : MockCleaned(x)
    \/ \E x \in Names : MockLockAcquired(x)
    \/ \E x \in Names, returncode \in ReturnCodes : MockCreaterepoExit(x, returncode)
    \/ WaitRaise
    \/ WaitDone

SpecMock == InitMock /\ [][NextMock]_vars

---------------------------------------------------------------------------
(* update_log_files: the status derived from the state log of mock *)

\* lines of a state log: stage starts and ends, with text before the marker,
\* with a marker inside the name, with an empty name, and without a marker
LogLines ==
    { <<"Start:", "init">>, <<"Start:", "build">>,
      <<"Finish:", "init">>, <<"Finish:", "build">>,
      <<"INFO", "Start:", "init">>, <<"Start:", "Finish:", "init">>,
      <<"Finish:">>, <<"INFO", "init">> }

MaxLines == 4

StateLogs == UNION {[1..k -> LogLines] : k \in 0..MaxLines}

\* a rebuild is running in workdir, with or without a state.log
InitProgress ==
    /\ entry = "update_log_files"
    /\ latest_builds = {}
    /\ input = EmptyMap
    /\ build_after = EmptyMap
    /\ parallel_jobs = 0
    /\ pc = "update_log_files"
    /\ items = EmptyMap
    /\ slots = <<>>
    /\ running = {}
    /\ waiting_on = {}
    /\ task = NoTasks
    /\ slot = NoSlot
    /\ calls = NoCalls
    /\ display = EmptyMap
    /\ NoRepoWaiter
    /\ koji = [n \in Names |-> NoKojiItem]
    /\ mock = [n \in Names |-> NoMockItem]
    /\ repo_lock = FreeLock
    /\ moves = <<>>
    /\ \/ state_log = [exists |-> FALSE, lines |-> <<>>]
       \/ \E lines \in StateLogs : state_log = [exists |-> TRUE, lines |-> lines]
    /\ log_status = <<>>
    /\ NoOther

\* update_log_files() derives the status and reports it
UpdateLogFiles ==
    /\ pc = "update_log_files"
    /\ log_status' = LogStatus(state_log)
    /\ pc' = "status_shown"
    /\ UNCHANGED <<entry, latest_builds, input, build_after, parallel_jobs, items,
                   running, waiting_on, task, slots, slot, calls, display>>
    /\ UNCHANGED <<waiterVars, koji, mockVars, state_log, otherVars>>

NextProgress == UpdateLogFiles

SpecProgress == InitProgress /\ [][NextProgress]_vars

---------------------------------------------------------------------------
(* MockBuildScheduler.build_item: the log-tailing task around the rebuild *)

\* the lines mock appends to state.log while it runs
TailLines == { <<"Start:", "init">>, <<"Finish:", "init">>, <<"Start:", "build">> }

\* the most passes of periodically_update_logfiles followed in one rebuild
MaxTicks == 2

\* status="cleaning buildroot" and status="Build failed", as words
CleaningStatus == <<"cleaning buildroot">>
BuildFailedStatus == <<"Build failed">>

\* variant: a cancelled task still runs its next pass
TailRunsThoughCancelled(t) == t \in {"scheduled", "sleeping", "cancelled"}

\* a task runs its next step unless it was cancelled: cancel() makes the pending
\* step raise CancelledError inside the coroutine, at its start or at its await
TailRuns(t) == t \in {"scheduled", "sleeping"}

\* build_item has started the rebuild in a fresh workdir, created the
\* log-tailing task and is suspended in returncode = await proc.wait()
InitTail ==
    /\ entry = "tail"
    /\ latest_builds = {}
    /\ input = EmptyMap
    /\ build_after = EmptyMap
    /\ parallel_jobs = 0
    /\ pc = "tail"
    /\ items = EmptyMap
    /\ slots = <<>>
    /\ running = {}
    /\ waiting_on = {}
    /\ task = NoTasks
    /\ slot = NoSlot
    /\ calls = NoCalls
    /\ display = EmptyMap
    /\ NoRepoWaiter
    /\ koji = [n \in Names |-> NoKojiItem]
    /\ mock = [n \in Names |-> NoMockItem]
    /\ repo_lock = FreeLock
    /\ moves = <<>>
    /\ NoLog
    /\ tail = [NoTail EXCEPT !.pc = "wait_proc", !.proc = "running", !.task = "scheduled"]
    /\ watch = NoWatch
    /\ screen = NoScreen
    /\ gate = NoGate
    /\ NoBuilder

\* the running mock process appends a line to state.log, creating the file
MockWrites(line) ==
    /\ pc = "tail"
    /\ tail.proc = "running"
    /\ Len(state_log.lines) < MaxLines
    /\ state_log' = [exists |-> TRUE, lines |-> Append(state_log.lines, line)]
    /\ UNCHANGED <<log_status, tail>>
    /\ UNCHANGED <<schedVars, waiterVars, koji, mockVars, watch, screen, builderVars>>

\* the mock process exits with returncode; nothing is written to the log after that
MockProcessExits(returncode) ==
    /\ pc = "tail"
    /\ tail.proc = "running"
    /\ tail' = [tail EXCEPT !.proc = "exited", !.returncode = returncode,
                            !.at_exit = LogStatus(state_log)]
    /\ UNCHANGED logVars
    /\ UNCHANGED <<schedVars, waiterVars, koji, mockVars, watch, screen, builderVars>>

\* one pass of periodically_update_logfiles: update_log_files(), then
\* await asyncio.sleep(0.1)
TailTick ==
    /\ pc = "tail"
    /\ TailRuns(tail.task)
    /\ tail.periodic < MaxTicks
    /\ log_status' = LogStatus(state_log)
    /\ tail' = [tail EXCEPT
                   !.task = IF @ = "cancelled" THEN @ ELSE "sleeping",
                   !.periodic = @ + 1,
                   !.after_cancel = IF tail.task = "cancelled" THEN @ + 1 ELSE @,
                   !.reported = IF tail.task = "cancelled"
                                THEN Append(@, [by |-> "periodically_update_logfiles",
                                                status |-> LogStatus(state_log)])
                                ELSE @]
    /\ UNCHANGED state_log
    /\ UNCHANGED <<schedVars, waiterVars, koji, mockVars, watch, screen, builderVars>>

\* proc.wait() returns in build_item: update_logfiles_task.cancel(),
\* update_log_files(), then U(status="cleaning buildroot") and the cleanup
\* process is started, or U(State.FAILED, "Build failed", ...) and return
ProcWaitReturns ==
    /\ pc = "tail"
    /\ tail.pc = "wait_proc"
    /\ tail.proc = "exited"
    /\ log_status' = LogStatus(state_log)
    /\ tail' = [tail EXCEPT
                   !.pc = IF MockSucceeded(tail.returncode) THEN "cleaning" ELSE "failed",
                   !.task = "cancelled",
                   !.final = @ + 1,
                   !.before = log_status,
                   !.reported =
                       <<[by |-> "update_log_files", status |-> LogStatus(state_log)],
                         [by |-> "build_item",
                          status |-> IF MockSucceeded(tail.returncode)
                                     THEN CleaningStatus ELSE BuildFailedStatus]>>]
    /\ UNCHANGED state_log
    /\ UNCHANGED <<schedVars, waiterVars, koji, mockVars, watch, screen, builderVars>>

NextTail ==
    \/ \E line \in TailLines : MockWrites(line)
    \/ \E returncode \in ReturnCodes : MockProcessExits(returncode)
    \/ TailTick
    \/ ProcWaitReturns

SpecTail == InitTail /\ [][NextTail]_vars

---------------------------------------------------------------------------
(* BuildSchedulerDisplay: update_items on the event loop's thread, render on another *)

\* the items of the display runs
DisplayNames == {"A", "B"}

\* the values an item of such a run takes
DisplayValues ==
    {BuildItem,
     [state |-> "BUILDING", status |-> ReadyStatus],
     [state |-> "BUILDING", status |-> ProgressStatus]}

\* build(): BuildSchedulerDisplay(self.items), a deep copy of the items
InitDisplay ==
    /\ entry = "display"
    /\ latest_builds = DisplayNames
    /\ input = EmptyMap
    /\ build_after = EmptyMap
    /\ parallel_jobs = 0
    /\ pc = "display"
    /\ items = [n \in latest_builds |-> BuildItem]
    /\ display = items
    /\ slots = <<>>
    /\ running = {}
    /\ waiting_on = {}
    /\ task = NoTasks
    /\ slot = NoSlot
    /\ calls = NoCalls
    /\ NoRepoWaiter
    /\ koji = [n \in Names |-> NoKojiItem]
    /\ mock = [n \in Names |-> NoMockItem]
    /\ repo_lock = FreeLock
    /\ moves = <<>>
    /\ NoLog
    /\ NoOther

\* what the actions of the display leave alone
DisplayFrame ==
    /\ UNCHANGED <<entry, latest_builds, input, build_after, parallel_jobs, running,
                   waiting_on, task, slots, slot, calls, pc>>
    /\ UNCHANGED <<waiterVars, backendVars, tail, watch, builderVars>>

\* the scheduler assigns to the fields of an item (update_item,
\* update_running_items), on the thread that also calls update_items
SchedulerAssigns(n, v) ==
    /\ pc = "display"
    /\ screen.upd = "idle"
    /\ items[n] # v
    /\ items' = [items EXCEPT ![n] = v]
    /\ screen' = [screen EXCEPT !.settled = @ \ {n}]
    /\ UNCHANGED display
    /\ DisplayFrame

\* update_items(items) is called and reaches `with self.lock`
UpdateItemsCall(names) ==
    /\ pc = "display"
    /\ screen.upd = "idle"
    /\ screen' = [screen EXCEPT !.upd = "acquire", !.names = names, !.changed = FALSE,
                                !.differed = FALSE,
                                !.repeat = names \subseteq screen.settled]
    /\ UNCHANGED <<items, display>>
    /\ DisplayFrame

\* update_items takes the lock
UpdateItemsLocked ==
    /\ pc = "display"
    /\ screen.upd = "acquire"
    /\ LockFree(screen.lock)
    /\ screen' = [screen EXCEPT
                     !.lock = "update_items",
                     !.upd = "loop",
                     !.todo = SelectSeq(Order(items), LAMBDA n : n \in screen.names),
                     !.before = display,
                     !.differed = \E n \in screen.names : display[n] # items[n]]
    /\ UNCHANGED <<items, display>>
    /\ DisplayFrame

\* update_items: one pass of its loop
UpdateItemsStep ==
    /\ pc = "display"
    /\ screen.upd = "loop"
    /\ screen.todo # <<>>
    /\ LET n == Head(screen.todo)
       IN /\ display' = UpdateItems(display, items, {n})
          /\ screen' = [screen EXCEPT
                           !.todo = Tail(@),
                           !.changed = @ \/ Differs(display[n], items[n]),
                           !.whole = IF screen.rnd = "print" /\ Tail(screen.todo) = <<>>
                                     THEN @ \cup {display'}
                                     ELSE @]
    /\ UNCHANGED items
    /\ DisplayFrame

\* update_items: the loop is over, the lock is released, and self.update() is
\* called if changed
UpdateItemsReturn ==
    /\ pc = "display"
    /\ screen.upd = "loop"
    /\ screen.todo = <<>>
    /\ screen' = [screen EXCEPT
                     !.lock = "free",
                     !.upd = IF screen.changed THEN "update" ELSE "idle",
                     !.before = EmptyMap,
                     !.settled = @ \cup screen.names]
    /\ UNCHANGED <<items, display>>
    /\ DisplayFrame

\* update_items: self.update(), and the call returns
UpdateCalled ==
    /\ pc = "display"
    /\ screen.upd = "update"
    /\ screen' = [screen EXCEPT !.upd = "idle"]
    /\ UNCHANGED <<items, display>>
    /\ DisplayFrame

\* render(stream, when) is called on the other thread and reaches `with self.lock`
RenderCall ==
    /\ pc = "display"
    /\ screen.rnd = "idle"
    /\ screen' = [screen EXCEPT
                     !.rnd = "acquire",
                     !.partial = /\ screen.upd = "loop"
                                 /\ display # screen.before
                                 /\ \E i \in 1..Len(screen.todo) :
                                        display[screen.todo[i]] # items[screen.todo[i]]]
    /\ UNCHANGED <<items, display>>
    /\ DisplayFrame

\* render takes the lock
RenderLocked ==
    /\ pc = "display"
    /\ screen.rnd = "acquire"
    /\ LockFree(screen.lock)
    /\ screen' = [screen EXCEPT
                     !.lock = "render", !.rnd = "print",
                     !.rnd_todo = Order(display),
                     !.whole = IF screen.upd = "loop" /\ screen.todo # <<>>
                               THEN {screen.before}
                               ELSE {display}]
    /\ UNCHANGED <<items, display>>
    /\ DisplayFrame

\* render: one pass of its loop prints one item of self.items
RenderItem ==
    /\ pc = "display"
    /\ screen.rnd = "print"
    /\ screen.rnd_todo # <<>>
    /\ LET n == Head(screen.rnd_todo)
       IN screen' = [screen EXCEPT
                        !.rnd_todo = Tail(@),
                        !.printed = [m \in DOMAIN @ \cup {n} |->
                                        IF m = n THEN display[n] ELSE @[m]]]
    /\ UNCHANGED <<items, display>>
    /\ DisplayFrame

\* render: the loop is over and the lock is released
RenderReturn ==
    /\ pc = "display"
    /\ screen.rnd = "print"
    /\ screen.rnd_todo = <<>>
    /\ screen' = [screen EXCEPT !.lock = "free", !.rnd = "idle", !.printed = EmptyMap,
                                !.whole = {}, !.partial = FALSE]
    /\ UNCHANGED <<items, display>>
    /\ DisplayFrame

NextDisplay ==
    \/ \E n \in DisplayNames, v \in DisplayValues : SchedulerAssigns(n, v)
    \/ \E names \in {DisplayNames} \cup {{n} : n \in DisplayNames} : UpdateItemsCall(names)
    \/ UpdateItemsLocked
    \/ UpdateItemsStep
    \/ UpdateItemsReturn
    \/ UpdateCalled
    \/ RenderCall
    \/ RenderLocked
    \/ RenderItem
    \/ RenderReturn

SpecDisplay == InitDisplay /\ [][NextDisplay]_vars

---------------------------------------------------------------------------
(* A batch of four independent items, any of which may be a repo item whose
   'fedpkg srpm' fails *)

SlotNames == Names \cup {"D"}

InitSlots ==
    /\ entry = "batch"
    /\ latest_builds = SlotNames
    /\ input = [n \in SlotNames |-> {}]
    /\ build_after = input
    /\ parallel_jobs \in 1..MaxJobs
    /\ items = [n \in SlotNames |-> BuildItem]
    /\ slots = InitialSlots(parallel_jobs)
    /\ pc = "constructed"
    /\ running = {}
    /\ waiting_on = {}
    /\ task = [n \in SlotNames |-> "none"]
    /\ slot = [n \in SlotNames |-> 0]
    /\ calls = [n \in SlotNames |-> 0]
    /\ display = EmptyMap
    /\ NoRepoWaiter
    /\ NoBackend
    /\ NoOther

NextSlots ==
    \/ StartBuild
    \/ \E name \in SlotNames : TaskStart(name)
    \/ \E name \in SlotNames : BuildDone(name)
    \/ \E name \in SlotNames : BuildFailed(name)
    \/ \E name \in SlotNames : BuildReturn(name)
    \/ \E name \in SlotNames : BuildFailedContinue(name)
    \/ \E name \in SlotNames : BuildRaise(name)
    \/ WaitRaise
    \/ WaitDone

SpecSlots == InitSlots /\ [][NextSlots]_vars

---------------------------------------------------------------------------
(* watch_koji_task *)

\* the child tasks a build task may get
MaxChildren == 2

\* the terminal states of a koji task
TerminalTaskStates == {"CLOSED", "CANCELED", "FAILED"}

\* watch_koji_task: state == "FAILED" or state == "CANCELLED" or state == "CLOSED"
WatchEnds(state) == state \in {"FAILED", "CANCELLED", "CLOSED"}

\* watch_koji_task after the loop: the value returned for the state
WatchResult(state) ==
    IF state = "FAILED" THEN "False"
    ELSE IF state = "CANCELLED" THEN "False"
    ELSE IF state = "CLOSED" THEN "True"
    ELSE "assert"

InitWatch ==
    /\ entry = "watch"
    /\ latest_builds = {}
    /\ input = EmptyMap
    /\ build_after = EmptyMap
    /\ parallel_jobs = 0
    /\ pc = "watch_koji_task"
    /\ items = EmptyMap
    /\ slots = <<>>
    /\ running = {}
    /\ waiting_on = {}
    /\ task = NoTasks
    /\ slot = NoSlot
    /\ calls = NoCalls
    /\ display = EmptyMap
    /\ NoRepoWaiter
    /\ NoBackend
    /\ NoBuilder
    /\ tail = NoTail
    /\ screen = NoScreen
    /\ gate = NoGate
    /\ \E state \in TaskStates \ TerminalTaskStates :
          watch = [pc |-> "query", task |-> state,
                   children |-> [c \in 1..MaxChildren |-> ""],
                   task_info |-> "", task_children |-> <<>>, result |-> ""]

WatchFrame ==
    /\ UNCHANGED <<schedVars, waiterVars, backendVars>>
    /\ UNCHANGED <<tail, screen, builderVars, gate>>

\* koji moves the task to another state; a terminal state is final
KojiTaskMoves(state) ==
    /\ pc = "watch_koji_task"
    /\ watch.task \notin TerminalTaskStates
    /\ state # watch.task
    /\ watch' = [watch EXCEPT !.task = state]
    /\ WatchFrame

\* koji creates the next child task, or moves a child to another state
KojiChildMoves(c, state) ==
    /\ pc = "watch_koji_task"
    /\ watch.task = "OPEN"
    /\ \A b \in 1..(c - 1) : watch.children[b] # ""
    /\ watch.children[c] \notin TerminalTaskStates
    /\ state # watch.children[c]
    /\ watch.children[c] = "" => state = "FREE"
    /\ watch' = [watch EXCEPT !.children[c] = state]
    /\ WatchFrame

\* one pass of the loop: display.query(), display.update(), the test, and either
\* the code after the loop or time.sleep(20)
WatchQuery ==
    /\ pc = "watch_koji_task"
    /\ watch.pc = "query"
    /\ LET state == watch.task
           queried == [watch EXCEPT
                          !.task_info = state,
                          !.task_children =
                              SelectSeq(watch.children, LAMBDA child : child # "")]
       IN IF WatchEnds(state)
          THEN watch' = [queried EXCEPT !.pc = "returned", !.result = WatchResult(state)]
          ELSE watch' = [queried EXCEPT !.pc = "sleeping"]
    /\ WatchFrame

\* time.sleep(20) returns
WatchSleepOver ==
    /\ pc = "watch_koji_task"
    /\ watch.pc = "sleeping"
    /\ watch' = [watch EXCEPT !.pc = "query"]
    /\ WatchFrame

NextWatch ==
    \/ \E state \in TaskStates : KojiTaskMoves(state)
    \/ \E c \in 1..MaxChildren, state \in TaskStates : KojiChildMoves(c, state)
    \/ WatchQuery
    \/ WatchSleepOver

SpecWatch == InitWatch /\ [][NextWatch]_vars

---------------------------------------------------------------------------
(* RpmBuilder.check *)

\* the packages _resolve_packages returns
GatePackages == {"A", "B"}

\* versions, as ranks in the order StrippedVersionInfo compares them by
Versions == 1..3

\* what listTagged returns for the latest build of a package in the destination tag
TaggedBuilds ==
    {[version |-> 0, create_event |-> 0]}
        \cup [version : Versions, create_event : {0} \cup Events]

\* variant: an older build is accepted as well
AcceptedAlways(allow_outdated, version, source_version) == TRUE

\* _check_packages: allow_outdated or version_info >= source_version_info
Accepted(allow_outdated, version, source_version) ==
    allow_outdated \/ version >= source_version

\* variant: only the first create_event is kept
TracksFirstOnly(create_event, wait_for_event) ==
    create_event # 0 /\ wait_for_event < 0

\* _check_packages: create_event and create_event > wait_for_event
Tracks(create_event, wait_for_event) ==
    create_event # 0 /\ create_event > wait_for_event

\* _check_packages: localrepo_package_versions
LocalrepoPackageVersions(g) ==
    IF g.include_localrepo
    THEN g.local
    ELSE [package \in DOMAIN g.local |-> 0]

\* _check_packages: the loop over details.keys()
RECURSIVE CheckPackagesLoop(_, _, _, _)
CheckPackagesLoop(order, g, need_rebuild, wait_for_event) ==
    IF order = <<>>
    THEN [need_rebuild |-> need_rebuild, wait_for_event |-> wait_for_event]
    ELSE LET package == Head(order)
             build == g.tagged[package]
             tag_ok == /\ build.version # 0
                       /\ Accepted(g.allow_outdated, build.version, g.source[package])
             event == IF tag_ok /\ Tracks(build.create_event, wait_for_event)
                      THEN build.create_event
                      ELSE wait_for_event
             local_version == LocalrepoPackageVersions(g)[package]
             local_ok == /\ local_version # 0
                         /\ Accepted(g.allow_outdated, local_version, g.source[package])
             ok == tag_ok \/ local_ok
         IN CheckPackagesLoop(Tail(order), g,
                              IF ok THEN need_rebuild ELSE need_rebuild \cup {package},
                              event)

\* _check_packages([], include_localrepo=..., allow_outdated=...)
CheckPackages(g) ==
    CheckPackagesLoop(SelectSeq(ItemOrder, LAMBDA n : n \in DOMAIN g.source), g, {}, -1)

\* check: one pass of the loop around getRepo
GetRepoPass(g) ==
    [g EXCEPT !.pc = IF repo_event >= g.wait_for_event THEN "returned" ELSE "sleeping",
              !.polls = IF g.polls < 2 THEN g.polls + 1 ELSE g.polls]

InitGate ==
    /\ entry = "gate"
    /\ latest_builds = {}
    /\ input = EmptyMap
    /\ build_after = EmptyMap
    /\ parallel_jobs = 0
    /\ pc = "check"
    /\ items = EmptyMap
    /\ slots = <<>>
    /\ running = {}
    /\ waiting_on = {}
    /\ task = NoTasks
    /\ slot = NoSlot
    /\ calls = NoCalls
    /\ display = EmptyMap
    /\ NoBackend
    /\ NoBuilder
    /\ tail = NoTail
    /\ watch = NoWatch
    /\ screen = NoScreen
    /\ repo_event \in Events
    /\ last_repo_event = -1
    /\ wait_task = 0
    /\ polls = <<>>
    /\ waiter = [w \in Waiters |-> IdleWaiter]
    /\ ready = <<>>
    /\ \E include_localrepo \in BOOLEAN, allow_outdated \in BOOLEAN,
          tagged \in [GatePackages -> TaggedBuilds],
          local \in [GatePackages -> {0} \cup Versions] :
          gate = [pc |-> "check",
                  include_localrepo |-> include_localrepo,
                  allow_outdated |-> allow_outdated,
                  source |-> [package \in GatePackages |-> 2],
                  tagged |-> tagged, local |-> local,
                  need_rebuild |-> {}, wait_for_event |-> -1, polls |-> 0]

GateFrame ==
    /\ UNCHANGED schedVars
    /\ UNCHANGED <<last_repo_event, wait_task, polls, waiter, ready>>
    /\ UNCHANGED <<backendVars, tail, watch, screen>>
    /\ UNCHANGED <<build_requires_map, build_after_details, report>>

\* koji regenerates the repository of the package tag
GateRepoRegenerated ==
    /\ pc = "check"
    /\ \E e \in Events : e > repo_event /\ repo_event' = e
    /\ UNCHANGED gate
    /\ GateFrame

\* check, from the call to the ClickException, to its return, or to the first
\* time.sleep(20)
Check ==
    /\ pc = "check"
    /\ gate.pc = "check"
    /\ LET r == CheckPackages(gate)
           g == [gate EXCEPT !.need_rebuild = r.need_rebuild,
                             !.wait_for_event = r.wait_for_event]
       IN gate' = IF r.need_rebuild # {}
                  THEN [g EXCEPT !.pc = "raised"]
                  ELSE IF r.wait_for_event >= 0
                  THEN GetRepoPass(g)
                  ELSE [g EXCEPT !.pc = "returned"]
    /\ UNCHANGED repo_event
    /\ GateFrame

\* time.sleep(20) is over and the loop makes its next pass
CheckRetry ==
    /\ pc = "check"
    /\ gate.pc = "sleeping"
    /\ gate' = GetRepoPass(gate)
    /\ UNCHANGED repo_event
    /\ GateFrame

NextGate ==
    \/ GateRepoRegenerated
    \/ Check
    \/ CheckRetry

SpecGate == InitGate /\ [][NextGate]_vars

---------------------------------------------------------------------------
(* Properties *)

StateOf(n) == items[n].state

\* the in-batch build-after dependencies of an item
Deps(name) ==
    (IF name \in DOMAIN build_after THEN build_after[name] ELSE {}) \cap DOMAIN items

RECURSIVE DepClosure(_)
DepClosure(S) ==
    LET T == S \cup UNION {Deps(n) : n \in S}
    IN IF T = S THEN S ELSE DepClosure(T)

\* direct and transitive in-batch dependencies
TransDeps(name) == DepClosure(Deps(name))

Building == {n \in DOMAIN items : StateOf(n) = "BUILDING"}

\* C1: dependency ordering. An item is BUILDING only while every in-batch item
\* of its build_after set is DONE (DONE is never left, so the dependency was
\* DONE when the item was promoted).
DependencyOrdering ==
    \A a \in DOMAIN items :
        StateOf(a) = "BUILDING" => \A b \in Deps(a) : StateOf(b) = "DONE"

DependencyOrderingWitness ==
    \E a \in DOMAIN items :
        /\ StateOf(a) = "BUILDING"
        /\ task[a] = "running"
        /\ \E b \in Deps(a) : b # a /\ StateOf(b) = "DONE" /\ task[b] = "finished"

\* C2: bounded parallelism. The number of BUILDING items never exceeds parallel_jobs.
BoundedParallelism == Cardinality(Building) <= parallel_jobs

BoundedParallelismWitness ==
    /\ pc = "waiting"
    /\ Cardinality(Building) = parallel_jobs
    /\ \E n \in DOMAIN items : StateOf(n) = "READY"

\* C3: slot exclusivity. Every BUILDING item whose task has allocated its slot
\* holds one occupied slot of the pool, and no two such items hold the same one.
HoldsSlot(n) == n \in DOMAIN items /\ StateOf(n) = "BUILDING" /\ task[n] = "running"

SlotExclusivity ==
    /\ \A n \in Names : HoldsSlot(n) => slot[n] \in 1..Len(slots) /\ slots[slot[n]]
    /\ \A m, n \in Names : HoldsSlot(m) /\ HoldsSlot(n) /\ m # n => slot[m] # slot[n]

SlotExclusivityWitness ==
    \E m, n \in Names : HoldsSlot(m) /\ HoldsSlot(n) /\ m # n /\ slot[m] # slot[n]

\* C4: failure blocks dependents. Once the build of B has ended with B FAILED,
\* every item with B in its build_after set is WAITING and has no task, in
\* every later state of the run.
EndedFailed(b) == b \in DOMAIN items /\ task[b] = "finished" /\ StateOf(b) = "FAILED"

FailureBlocksDependents ==
    \A b \in DOMAIN items :
        EndedFailed(b) =>
            \A a \in DOMAIN items :
                b \in Deps(a) => StateOf(a) = "WAITING" /\ task[a] = "none"

FailureBlocksDependentsWitness ==
    /\ pc = "returned"
    /\ \E a, b \in DOMAIN items :
        a # b /\ EndedFailed(b) /\ b \in Deps(a) /\ StateOf(a) = "WAITING"

\* C5: failure isolation. When the run has returned and some item B FAILED,
\* every item that does not depend on B, whose dependencies are all DONE and
\* whose own build did not fail, is DONE.
FailureIsolation ==
    pc = "returned" =>
        \A b, x \in DOMAIN items :
            ( /\ StateOf(b) = "FAILED"
              /\ x # b
              /\ b \notin TransDeps(x)
              /\ \A d \in TransDeps(x) : StateOf(d) = "DONE"
              /\ StateOf(x) # "FAILED" )
            => StateOf(x) = "DONE"

\* a node that reaches itself along build_after edges
RECURSIVE ReachFrom(_, _)
ReachFrom(ba, S) ==
    LET T == S \cup UNION {ba[n] : n \in S \cap DOMAIN ba}
    IN IF T = S THEN S ELSE ReachFrom(ba, T)

HasCycle(ba) == \E n \in DOMAIN ba : n \in ReachFrom(ba, ba[n])

\* C6: acyclicity gate. check_for_cycles raises for every mapping over two or
\* more packages in which a package reaches itself, and a RpmBuilder run whose
\* build-after graph is such a mapping stops there: no scheduler is
\* constructed and nothing is built.
AcyclicityGate ==
    /\ ( /\ entry = "check"
         /\ pc # "check_for_cycles"
         /\ Cardinality(DOMAIN input) >= 2
         /\ HasCycle(input) )
       => pc = "cycle_error"
    /\ entry = "rpm" =>
         LET ba == ComputeAfter(latest_builds, input)
         IN (Cardinality(DOMAIN ba) >= 2 /\ HasCycle(ba)) =>
              /\ pc \in {"compute_build_order", "cycle_error"}
              /\ items = EmptyMap
              /\ build_after = EmptyMap
              /\ running = {}

AcyclicityGateWitness ==
    /\ entry = "rpm"
    /\ pc = "cycle_error"
    /\ Cardinality(latest_builds) >= 2
    /\ HasCycle(ComputeAfter(latest_builds, input))

\* C7: single-item exemption. check_for_cycles does not raise for a mapping
\* with exactly one package, whatever its dependency set.
SingleItemExemption ==
    ( /\ entry = "check"
      /\ pc # "check_for_cycles"
      /\ Cardinality(DOMAIN input) = 1 )
    => pc = "no_cycles"

SingleItemExemptionWitness ==
    /\ entry = "check"
    /\ pc = "no_cycles"
    /\ \E n \in Names : DOMAIN input = {n} /\ n \in input[n]

\* C8: self-edge of a single-item batch. Once the run of the single item A
\* with build_after = {A: {A}} has started, A has left WAITING.
SelfEdgeIgnored ==
    ( /\ entry = "direct"
      /\ latest_builds = {"A"}
      /\ DOMAIN build_after = {"A"}
      /\ build_after["A"] = {"A"}
      /\ pc # "constructed" )
    => StateOf("A") # "WAITING"

Scenario3 ==
    /\ latest_builds = {"A", "B"}
    /\ DOMAIN items = {"A", "B"}
    /\ Deps("A") = {}
    /\ "B" \in DOMAIN build_after /\ build_after["B"] = {"A"}

RaisedTasks == {n \in Names : task[n] = "raised"}

\* the tasks whose build_item call has not ended yet
LiveTasks == {n \in running : task[n] \in {"created", "running"}}

\* C11: completion when nothing fails. On an acyclic graph, as long as no
\* item is FAILED and no task has raised, do_build has returned only with
\* every item DONE, and while it has not returned either a build is still to
\* end or do_build can take its next step: the run is never stuck, and it
\* ends with every item DONE.
CompletionWhenNothingFails ==
    ( /\ pc \in {"waiting", "returned"}
      /\ ~HasCycle(build_after)
      /\ RaisedTasks = {}
      /\ \A n \in DOMAIN items : StateOf(n) # "FAILED" )
    => /\ pc = "returned" => \A n \in DOMAIN items : StateOf(n) = "DONE"
       /\ pc = "waiting" =>
             /\ LiveTasks # {} \/ Completed(waiting_on) # {}
             /\ \A n \in DOMAIN items :
                   StateOf(n) \in {"WAITING", "READY"} =>
                       \E m \in DOMAIN items : StateOf(m) = "BUILDING"

CompletionWhenNothingFailsWitness ==
    /\ pc = "returned"
    /\ DOMAIN items = Names
    /\ parallel_jobs = 2
    /\ Deps("B") = {"A"} /\ Deps("C") = {"B"}
    /\ \A n \in Names : StateOf(n) = "DONE" /\ calls[n] = 1

\* C12: scenario 1. Items {A, B, C}, B and C build after A, parallel_jobs = 2.
\* Until A is DONE, B and C are WAITING and were never started, so A is the
\* only item that builds; from the step in which A becomes DONE on, B and C
\* have both been promoted and their tasks created.
Scenario1 ==
    /\ DOMAIN items = Names
    /\ Deps("A") = {} /\ Deps("B") = {"A"} /\ Deps("C") = {"A"}
    /\ parallel_jobs = 2

Scenario1Holds ==
    (Scenario1 /\ pc # "constructed") =>
        /\ StateOf("A") # "DONE" =>
              /\ StateOf("A") \in {"BUILDING", "FAILED"}
              /\ \A n \in {"B", "C"} : StateOf(n) = "WAITING" /\ task[n] = "none"
        /\ StateOf("A") = "DONE" =>
              \A n \in {"B", "C"} :
                  StateOf(n) \in {"BUILDING", "DONE", "FAILED"} /\ task[n] # "none"

Scenario1Witness ==
    /\ Scenario1
    /\ StateOf("A") = "DONE"
    /\ StateOf("B") = "BUILDING" /\ task["B"] = "running"
    /\ StateOf("C") = "BUILDING" /\ task["C"] = "running"

\* C13 as stated: an item that is DONE or FAILED keeps that state in every
\* later step of the run.
TerminalStates ==
    [][\A n \in DOMAIN items :
          (n \in DOMAIN items' /\ StateOf(n) \in {"DONE", "FAILED"})
              => items'[n].state = StateOf(n)]_vars

\* C14: no automatic retry. build_item is called at most once for an item.
NoAutomaticRetry == \A n \in Names : calls[n] <= 1

NoAutomaticRetryWitness ==
    /\ pc = "returned"
    /\ \E a, b \in DOMAIN items :
          /\ a # b
          /\ StateOf(a) = "FAILED" /\ calls[a] = 1
          /\ StateOf(b) = "DONE" /\ calls[b] = 1

\* update_running_items has nothing left to do
ScanSettled ==
    /\ \A n \in DOMAIN items : StateOf(n) = "WAITING" => NotReady(items, n) # {}
    /\ (\E n \in DOMAIN items : StateOf(n) = "READY")
          => Cardinality(Building) >= parallel_jobs

\* C15: scheduler-contract violation. The step in which build_item returns with
\* its item still BUILDING leaves the item FAILED with the status "Build method
\* exited in RUNNING state", and the promotion scan has run: no item is left
\* WAITING with all its dependencies DONE, or READY below the limit.
ContractViolation ==
    [][\A n \in Names :
          BuildReturn(n) =>
              /\ items'[n].state = "FAILED"
              /\ items'[n].status = ExitedStatus
              /\ ScanSettled']_vars

ContractViolationWitness ==
    /\ parallel_jobs = 1
    /\ \A n \in DOMAIN items : StateOf(n) # "DONE"
    /\ \E a, b \in DOMAIN items :
          /\ items[a] = [state |-> "FAILED", status |-> ExitedStatus]
          /\ task[a] = "finished"
          /\ StateOf(b) = "BUILDING" /\ task[b] = "created"

\* C16: exception propagation. Once a task has ended with an exception,
\* do_build never returns normally: the task stays in self.running, so the loop
\* goes on, and the wait that finds it among its done tasks raises; and do_build
\* raises only an exception of a task.
ExceptionPropagation ==
    /\ RaisedTasks # {} =>
          /\ pc \in {"waiting", "raised"}
          /\ pc = "waiting" =>
                /\ RaisedTasks \subseteq running
                /\ RaisedTasks \cap waiting_on # {} => HasException(Completed(waiting_on))
                /\ RaisedTasks \cap waiting_on = {} => waiting_on # {}
    /\ pc = "raised" => RaisedTasks # {}

ExceptionPropagationWitness ==
    /\ pc = "raised"
    /\ \E a, b, c \in DOMAIN items :
          /\ task[a] = "raised"
          /\ task[b] = "finished"
          /\ task[c] = "running"
          /\ {b, c} \subseteq waiting_on

\* C17 as stated: whenever the event loop has control, no item is READY while
\* fewer than parallel_jobs items are BUILDING.
ReactiveReevaluation ==
    pc = "waiting" =>
        ~ /\ \E n \in DOMAIN items : StateOf(n) = "READY"
          /\ Cardinality(Building) < parallel_jobs

\* the do_wait tasks that were created and have not finished
Outstanding == {t \in 1..Len(polls) : polls[t].state # "done"}

Returned(w) == waiter[w].pc = "returned"

\* C18: monotonic repository wait. A caller of wait_for_event(E) that has
\* returned did so on a value >= E that do_wait read from the repository:
\* last_repo_event at the call, or the result of the task it awaited; and no
\* caller is released by a task whose result is below its threshold.
MonotonicRepoWait ==
    \A w \in Waiters :
        Returned(w) =>
            /\ waiter[w].seen >= waiter[w].event
            /\ \E t \in 1..Len(polls) :
                  polls[t].state = "done" /\ polls[t].result = waiter[w].seen
            /\ waiter[w].by # 0 => polls[waiter[w].by].result = waiter[w].seen
            /\ waiter[w].by = 0 => waiter[w].seen = waiter[w].since

MonotonicRepoWaitWitness ==
    \E w1, w2 \in Waiters :
        /\ Returned(w1) /\ waiter[w1].by = 0 /\ waiter[w1].event < waiter[w1].seen
        /\ Returned(w2) /\ waiter[w2].by # 0 /\ waiter[w2].rounds >= 2

\* C19: coalesced polling. At most one do_wait task is created and not
\* finished, it is the one self.wait_task names, and every caller that awaits
\* awaits that one.
CoalescedPolling ==
    /\ Cardinality(Outstanding) <= 1
    /\ \A t \in Outstanding : wait_task = t
    /\ wait_task # 0 => wait_task \in Outstanding
    /\ \A w \in Waiters : waiter[w].pc = "awaiting" => waiter[w].awaits = wait_task

CoalescedPollingWitness ==
    /\ \A w \in Waiters : waiter[w].pc = "awaiting"
    /\ Cardinality({waiter[w].event : w \in Waiters}) >= 2
    /\ Len(polls) = 2
    /\ polls[2].state = "sleeping"

\* C20: scenario 5, fan-out. Two callers with the same threshold that wait at
\* the same time await the same task; the first task whose result reaches the
\* threshold releases both: when one has returned on it, the other has returned
\* on it too or its wakeup with that result is queued; no caller awaits while
\* last_repo_event has reached its threshold, and none is released by a later
\* task than the first that reached it.
FanOut ==
    /\ \A w \in Waiters :
          /\ waiter[w].pc = "awaiting" => last_repo_event < waiter[w].event
          /\ (Returned(w) /\ waiter[w].by # 0) =>
                \A t \in 1..(waiter[w].by - 1) : polls[t].result < waiter[w].event
    /\ \A w1, w2 \in Waiters :
          (w1 # w2 /\ waiter[w1].event = waiter[w2].event) =>
              /\ (waiter[w1].pc = "awaiting" /\ waiter[w2].pc = "awaiting")
                    => waiter[w1].awaits = waiter[w2].awaits
              /\ (Returned(w1) /\ waiter[w1].by # 0 /\ waiter[w2].pc \in {"awaiting", "woken"})
                    => waiter[w2].pc = "woken" /\ waiter[w2].awaits = waiter[w1].by
              /\ (Returned(w1) /\ waiter[w1].by # 0 /\ Returned(w2) /\ waiter[w2].by # 0)
                    => waiter[w1].by = waiter[w2].by

FanOutWitness ==
    \E w1, w2 \in Waiters :
        /\ w1 # w2
        /\ waiter[w1].event = 10 /\ waiter[w2].event = 10
        /\ waiter[w1].since = 8 /\ waiter[w2].since = 8
        /\ Returned(w1) /\ Returned(w2)
        /\ waiter[w1].by = waiter[w2].by
        /\ waiter[w1].by # 0
        /\ waiter[w1].rounds = 1 /\ waiter[w2].rounds = 2
        /\ polls[waiter[w1].by].result >= 10

\* C21: remote success gate. A koji item is DONE only if its task was observed
\* CLOSED and wait_for_event, called with the create_event of its latest tagged
\* build, has returned on a value at or after that event: the repository of
\* the build tag is at or after the tagging event.
RemoteSuccessGate ==
    \A n \in Names :
        koji[n].state = "DONE" =>
            /\ koji[n].observed = "CLOSED"
            /\ koji[n].pc = "returned"
            /\ waiter[n].pc = "returned"
            /\ waiter[n].event = koji[n].tag_event
            /\ waiter[n].seen >= koji[n].tag_event
            /\ repo_event >= koji[n].tag_event

RemoteSuccessGateWitness ==
    \E n, m \in Names :
        /\ koji[n].state = "DONE" /\ waiter[n].by # 0 /\ waiter[n].rounds >= 2
        /\ koji[m].state = "DONE" /\ waiter[m].by = 0

\* C28: remote terminal mapping. A poll that saw the task FAILED or CANCELED
\* leaves the item FAILED with build_item returned and wait_for_event never
\* called; a poll that saw any other state but CLOSED leaves build_item in its
\* sleep, to poll again; wait_for_event is called only after CLOSED was seen.
RemoteTerminalMapping ==
    \A n \in Names :
        /\ koji[n].observed \in {"FAILED", "CANCELED"} =>
              koji[n].state = "FAILED" /\ koji[n].pc = "returned" /\ waiter[n].pc = "idle"
        /\ koji[n].observed \in {"FREE", "OPEN", "ASSIGNED"} =>
              koji[n].state = "BUILDING" /\ koji[n].pc = "sleeping" /\ waiter[n].pc = "idle"
        /\ (waiter[n].pc # "idle" \/ koji[n].pc = "wait_for_event" \/ koji[n].state = "DONE")
              => koji[n].observed = "CLOSED"
        /\ koji[n].state = "FAILED" => koji[n].observed \in {"FAILED", "CANCELED"}

RemoteTerminalMappingWitness ==
    \E a, b, c \in Names :
        /\ koji[a].observed = "CANCELED" /\ koji[a].state = "FAILED"
        /\ koji[b].observed = "FAILED" /\ koji[b].state = "FAILED"
        /\ koji[c].observed = "CLOSED" /\ koji[c].state = "DONE"

\* C24: display convergence. When do_build has returned with every item DONE
\* or FAILED, the snapshot of the display has one entry for each item of the
\* batch and no other, and each entry equals the item (state and status); the
\* snapshot equals the items whenever the event loop has control.
DisplayConvergence ==
    /\ ( /\ pc = "returned"
         /\ \A n \in DOMAIN items : StateOf(n) \in {"DONE", "FAILED"} )
       => /\ DOMAIN display = DOMAIN items
          /\ \A n \in DOMAIN items : display[n].state = StateOf(n)
    /\ pc \in {"waiting", "returned", "raised"} => display = items

DisplayConvergenceWitness ==
    /\ pc = "returned"
    /\ DOMAIN items = Names
    /\ \E a, b \in Names : StateOf(a) = "DONE" /\ StateOf(b) = "FAILED"
    /\ \A n \in Names : StateOf(n) \in {"DONE", "FAILED"} /\ display[n] = items[n]

\* the tasks that ended, normally, with their item not DONE
Retired == {n \in Names : task[n] = "finished" /\ StateOf(n) # "DONE"}

\* C26: slot retirement. The step in which a task ends with its item not DONE
\* leaves its slot occupied and appends one unoccupied slot; the step in which
\* it ends with the item DONE frees its slot and leaves the pool size as it
\* was. The slot of a task that ended with its item not DONE stays occupied,
\* and no step assigns it to an item.
SlotRetirement ==
    /\ [](\A n \in Retired : slots[slot[n]])
    /\ [][\A n \in Names :
             /\ (task[n] = "running" /\ task'[n] = "finished") =>
                   IF items'[n].state = "DONE"
                   THEN /\ Len(slots') = Len(slots)
                        /\ ~slots'[slot[n]]
                        /\ \A k \in 1..Len(slots) : k # slot[n] => slots'[k] = slots[k]
                   ELSE /\ slots' = Append(slots, FALSE)
                        /\ slots'[slot[n]]
             /\ slot'[n] # slot[n] =>
                   \A m \in Retired : slot[m] # slot'[n]]_vars

SlotRetirementWitness ==
    /\ \E n, m \in DOMAIN items :
          /\ n \in Retired
          /\ task[m] \in {"running", "finished"}
          /\ slot[m] = Len(InitialSlots(parallel_jobs)) + 1
    /\ \E n \in DOMAIN items : task[n] = "finished" /\ StateOf(n) = "DONE"

\* the in-batch dependencies of an item that are not DONE
Unmet(n) == {d \in Deps(n) : StateOf(d) # "DONE"}

\* C27: waiting status invariant. Whenever the event loop has control, an item
\* that is WAITING has an in-batch dependency that is not DONE, and its status is
\* "Waiting for: " with exactly the dependencies that are not DONE.
WaitingStatus ==
    pc \in {"waiting", "returned"} =>
        \A n \in DOMAIN items :
            StateOf(n) = "WAITING" =>
                /\ Unmet(n) # {}
                /\ items[n].status = WaitingFor(Unmet(n))

WaitingStatusWitness ==
    /\ pc = "waiting"
    /\ \E n, a, b \in DOMAIN items :
          /\ a # b
          /\ Deps(n) = {a, b}
          /\ StateOf(n) = "WAITING"
          /\ StateOf(a) = "DONE"
          /\ StateOf(b) = "FAILED"
          /\ items[n].status = WaitingFor({b})

\* the items whose createrepo_c process runs
InCreaterepo == {x \in Names : mock[x].pc = "createrepo"}

\* the items that have taken repo_lock and not released it
LockHolders == InCreaterepo

Moved(x) == \E i \in 1..Len(moves) : moves[i] = x

\* C22: repository serialization. At most one createrepo_c runs at a time, and
\* it runs with repo_lock held; a step moves the RPMs of at most one item, and
\* it does so only when no createrepo_c runs and no task holds the lock, taking
\* the lock for the move.
RepositorySerialization ==
    /\ [](/\ Cardinality(InCreaterepo) <= 1
          /\ InCreaterepo # {} => repo_lock.locked
          /\ \A i, j \in 1..Len(moves) : moves[i] = moves[j] => i = j)
    /\ [][moves' # moves =>
             /\ Len(moves') = Len(moves) + 1
             /\ InCreaterepo = {}
             /\ LockHolders = {}]_vars

RepositorySerializationWitness ==
    /\ Len(moves) = 3
    /\ \E x, y \in Names :
          /\ mock[x].pc = "createrepo"
          /\ mock[y].pc = "wait_createrepo"
          /\ repo_lock.waiters = <<[who |-> y, woken |-> FALSE]>>
    /\ \E z \in Names : StateOf(z) = "DONE"

\* C23 as stated: from the move of the RPMs of an item to the end of the
\* createrepo run of that item, no other item's RPMs are moved: an item that
\* is moved and waits for, or runs, its createrepo is the last one moved.
PlacementNotInterleaved ==
    \A x \in Names :
        (Moved(x) /\ mock[x].pc \in {"wait_createrepo", "createrepo"})
            => moves[Len(moves)] = x

\* C25: local success ordering. An item is DONE only if its rebuild returned
\* 0, its RPMs were moved and its createrepo run, started after the move, has
\* completed; an item that is BUILDING or further has all its in-batch
\* dependencies in that condition.
LocalSuccessOrdering ==
    /\ \A x \in DOMAIN items :
          StateOf(x) = "DONE" =>
              /\ mock[x].returncode = 0
              /\ Moved(x)
              /\ mock[x].indexed
              /\ mock[x].pc = "done"
    /\ \A x \in DOMAIN items :
          (StateOf(x) = "BUILDING" \/ task[x] # "none") =>
              \A d \in Deps(x) : mock[d].indexed /\ Moved(d) /\ StateOf(d) = "DONE"
    /\ \A x \in Names :
          mock[x].pc \in {"wait_createrepo", "createrepo", "done"} => Moved(x)

LocalSuccessOrderingWitness ==
    /\ Deps("C") = {"A", "B"}
    /\ StateOf("C") = "BUILDING" /\ task["C"] = "running"
    /\ moves = <<"B", "A">>

MarkerAt(line) == {i \in 1..Len(line) : line[i] \in {"Start:", "Finish:"}}

\* a line is a `marker` line if its first marker is `marker`
IsLine(line, marker) ==
    \E i \in MarkerAt(line) : line[i] = marker /\ \A j \in MarkerAt(line) : i <= j

\* the number of words of a marker line up to its first marker
UpToMarker(line) == Cardinality({j \in 1..Len(line) : \A i \in MarkerAt(line) : j <= i})

\* the stage a marker line names: the words after its first marker
StageOf(line) ==
    [k \in 1..(Len(line) - UpToMarker(line)) |-> line[k + UpToMarker(line)]]

\* the stack after the first k lines: pushed on a Start line, popped on a Finish
\* line whose name is the top, left as it is by every other line
StackAfter(lines, k) ==
    LET st[i \in 0..k] ==
            IF i = 0 THEN <<>>
            ELSE LET before == st[i - 1]
                 IN IF IsLine(lines[i], "Start:")
                    THEN before \o <<StageOf(lines[i])>>
                    ELSE IF /\ IsLine(lines[i], "Finish:")
                            /\ before # <<>>
                            /\ before[Len(before)] = StageOf(lines[i])
                         THEN [j \in 1..(Len(before) - 1) |-> before[j]]
                         ELSE before
    IN st[k]

\* C30: progress derivation. The status update_log_files reports is the top
\* of the stack built from the lines of the state log, pushing the name of
\* every Start line and popping on a Finish line only if its name is the top;
\* it is "Building" if the stack ends empty or there is no state log.
ProgressDerivation ==
    pc = "status_shown" =>
        IF ~state_log.exists
        THEN log_status = <<"Building">>
        ELSE LET stack == StackAfter(state_log.lines, Len(state_log.lines))
             IN IF stack = <<>>
                THEN log_status = <<"Building">>
                ELSE log_status = stack[Len(stack)]

ProgressDerivationWitness ==
    /\ pc = "status_shown"
    /\ state_log.exists
    /\ state_log.lines = << <<"INFO", "Start:", "init">>, <<"Start:", "build">>,
                            <<"Finish:", "init">> >>
    /\ log_status = <<"build">>

\* C31: final log flush. The cancelled log-tailing task makes no update; when
\* build_item has gone on past the exit of the rebuild, the task is cancelled,
\* build_item has read the log exactly once itself, and the first status it
\* reported is the one the log gave when the process exited, the status of the
\* success or failure handling coming after it.
FinalLogFlush ==
    /\ tail.after_cancel = 0
    /\ tail.pc \in {"cleaning", "failed"} =>
          /\ tail.task = "cancelled"
          /\ tail.final = 1
          /\ log_status = tail.at_exit
          /\ Len(tail.reported) = 2
          /\ tail.reported[1] = [by |-> "update_log_files", status |-> tail.at_exit]
          /\ tail.reported[2] =
                [by |-> "build_item",
                 status |-> IF tail.returncode = 0 THEN CleaningStatus ELSE BuildFailedStatus]

FinalLogFlushWitness ==
    /\ tail.pc = "cleaning"
    /\ tail.periodic >= 1
    /\ tail.at_exit = <<"build">>
    /\ tail.before = <<"init">>
    /\ tail.reported[1].status = <<"build">>

\* C32: display diffing. An update_items call goes on to call update() exactly
\* if one of its items differed from the stored copy when it took the lock; it
\* does not if none of its items was assigned to since an earlier call with
\* that item returned; and the stored copy of an item equals the item from the
\* end of the call until the item is next assigned to.
DisplayDiffing ==
    /\ (screen.upd = "loop" /\ screen.todo = <<>>) =>
          /\ screen.changed <=> screen.differed
          /\ \A n \in screen.names : display[n] = items[n]
    /\ screen.upd = "update" => screen.differed /\ ~screen.repeat
    /\ (screen.upd = "idle" /\ screen.names # {}) =>
          /\ screen.changed <=> screen.differed
          /\ screen.repeat => ~screen.changed
    /\ \A n \in screen.settled : display[n] = items[n]

DisplayDiffingWitness ==
    /\ screen.upd = "idle"
    /\ screen.names = DisplayNames
    /\ screen.repeat
    /\ ~screen.changed
    /\ display = items
    /\ items["A"] = [state |-> "BUILDING", status |-> ProgressStatus]
    /\ items["B"] = [state |-> "BUILDING", status |-> ReadyStatus]

\* C33: display snapshot atomicity. What a render call has printed when its
\* loop ends is the snapshot as it was between two update_items calls: before
\* the call under way when render took the lock, or after a call that ended
\* since.
SnapshotAtomicity ==
    (screen.rnd = "print" /\ screen.rnd_todo = <<>>) =>
        screen.printed \in screen.whole

SnapshotAtomicityWitness ==
    /\ screen.rnd = "print"
    /\ screen.rnd_todo = <<>>
    /\ screen.partial
    /\ screen.printed = display
    /\ display = items
    /\ \A n \in DisplayNames : display[n].state = "BUILDING"

\* the build-after sets _compute_build_order is to give for the batch: the
\* resolved names that are in the batch and are not the package itself, none
\* for a package without build requirements
ExpectedAfter ==
    [p \in latest_builds |->
        IF build_requires_map[p] = {}
        THEN {}
        ELSE (input[p] \cap latest_builds) \ {p}]

\* C34: build-after construction. The step of _compute_build_order leaves
\* build_after_details with exactly the batch as keys and, for each package,
\* exactly the expected names as keys; the mapping it returns is the expected
\* one; and every edge check_for_cycles prints goes from a package to one of
\* its expected names, with the explanation stored for that pair.
BuildAfterConstruction ==
    [][pc = "compute_build_order" =>
          /\ DOMAIN build_after_details' = latest_builds
          /\ \A p \in latest_builds : DOMAIN build_after_details'[p] = ExpectedAfter[p]
          /\ pc' = "constructed" => build_after' = ExpectedAfter
          /\ \A shown \in report'.printed :
                \A i \in 1..Len(shown.edges) :
                    LET e == shown.edges[i]
                    IN /\ e.y \in ExpectedAfter[e.x]
                       /\ e.explanation = build_after_details'[e.x][e.y][1].explanation
    ]_vars

BuildAfterConstructionWitness ==
    /\ entry = "rpm"
    /\ pc = "cycle_error"
    /\ latest_builds = {"A", "B"}
    /\ input["A"] = {"A", "B", "C"}
    /\ input["B"] = {"A"}
    /\ DOMAIN build_after_details["A"] = {"B"}
    /\ \E shown \in report.printed :
          /\ shown.cycle = <<"A", "B">>
          /\ shown.edges[1] = [x |-> "A", y |-> "B", explanation |-> <<"A", "B">>]

\* the mapping check_for_cycles was given
CheckedGraph ==
    IF entry = "check"
    THEN input
    ELSE ComputeAfter(latest_builds, ResolveRequires(build_requires_map, input))

\* C35: cycle reporting. When check_for_cycles has raised, it had collected at
\* most 25 simple cycles of the graph and printed at least one and at most 5
\* of them, none longer than a collected cycle it did not print, each edge of
\* a printed cycle with the explanation stored for it.
CycleReporting ==
    pc = "cycle_error" =>
        /\ report.pc = "raised"
        /\ Cardinality(report.collected) <= CycleCap
        /\ report.collected \subseteq SimpleCycles(CheckedGraph)
        /\ Cardinality(report.printed) \in 1..PrintLimit
        /\ \A shown \in report.printed :
              /\ shown.cycle \in report.collected
              /\ \A c \in report.collected :
                    c \notin {other.cycle : other \in report.printed}
                        => Len(shown.cycle) <= Len(c)
              /\ \A i \in 1..Len(shown.cycle) :
                    LET x == shown.cycle[i]
                        y == shown.cycle[(i % Len(shown.cycle)) + 1]
                    IN shown.edges[i] =
                          [x |-> x, y |-> y,
                           explanation |-> build_after_details[x][y][1].explanation]

CycleReportingWitness ==
    /\ pc = "cycle_error"
    /\ entry = "check"
    /\ input \in LargeMappings
    /\ Cardinality(report.collected) = CycleCap
    /\ Cardinality(SimpleCycles(input)) > CycleCap
    /\ Cardinality(report.printed) = PrintLimit
    /\ report.more
    /\ \E shown \in report.printed : Len(shown.cycle) = 2

\* C36: slot allocation never fails. Whenever a run_build_item task is about
\* to start, at least one slot is unoccupied, so the assertion "Can't allocate
\* slot" is not reached.
SlotAllocationNeverFails ==
    \A n \in DOMAIN task : task[n] = "created" => FirstFree(slots) # 0

\* C37: repository wait liveness. Once the create_event of the repository is
\* at least the event a caller of wait_for_event asked for, that call
\* eventually returns, whatever the other callers wait for and in whatever
\* order they start and are resumed.
RepoWaitLiveness ==
    \A w \in Waiters :
        (waiter[w].pc \in {"awaiting", "woken"} /\ repo_event >= waiter[w].event)
            ~> (waiter[w].pc = "returned")

RepoWaitLivenessWitness ==
    \E w \in Waiters, v \in Waiters :
        /\ v # w
        /\ waiter[w].pc = "returned"
        /\ waiter[w].rounds >= 2
        /\ waiter[v].pc = "returned"
        /\ waiter[v].rounds >= 1
        /\ waiter[v].event < waiter[w].event
        /\ repo_event >= waiter[w].event

\* the names an item is to build after for which no item was added
OutsideBatch(n) ==
    (IF n \in DOMAIN build_after THEN build_after[n] ELSE {}) \ DOMAIN items

\* C38: dependencies outside the batch are treated as satisfied. From the
\* first scan on, no status names a dependency for which no item was added,
\* and an item with no build_after entry, or with only such names in it, is
\* not WAITING.
OutsideBatchSatisfied ==
    pc \in {"waiting", "returned", "raised"} =>
        \A n \in DOMAIN items :
            /\ items[n].status.names \cap OutsideBatch(n) = {}
            /\ (n \notin DOMAIN build_after \/ build_after[n] \subseteq OutsideBatch(n))
                   => StateOf(n) # "WAITING"

OutsideBatchSatisfiedWitness ==
    /\ pc = "waiting"
    /\ \E n, k \in DOMAIN items :
          /\ n # k
          /\ n \notin DOMAIN build_after
          /\ StateOf(n) = "BUILDING"
          /\ OutsideBatch(k) # {}
          /\ StateOf(k) = "WAITING"
          /\ items[k].status = WaitingFor({n})

\* C39: task watcher termination. watch_koji_task does not go on polling
\* after it has observed the task in a terminal koji state (CLOSED, FAILED,
\* CANCELED), and when it has returned the value is True for CLOSED and
\* False for FAILED and CANCELED.
WatcherTermination ==
    /\ watch.pc = "sleeping" => watch.task_info \notin TerminalTaskStates
    /\ watch.pc = "returned" =>
          /\ watch.task_info \in TerminalTaskStates
          /\ watch.result = (IF watch.task_info = "CLOSED" THEN "True" ELSE "False")

\* a package the gate lets pass: its latest build in the destination tag, or
\* (with include_localrepo) its build in the local repository, exists and is
\* not older than the source version unless allow_outdated
TagSuffices(package) ==
    /\ gate.tagged[package].version # 0
    /\ gate.allow_outdated \/ gate.tagged[package].version >= gate.source[package]

LocalSuffices(package) ==
    /\ gate.include_localrepo
    /\ gate.local[package] # 0
    /\ gate.allow_outdated \/ gate.local[package] >= gate.source[package]

\* the create_events of the accepted tagged packages
AcceptedEvents ==
    {gate.tagged[package].create_event :
        package \in {q \in DOMAIN gate.tagged : TagSuffices(q)}} \ {0}

\* C40: pre-build package gate. check returns only if every resolved package
\* is accepted in the destination tag or the local repository, and then only
\* with the create_event of the package repository at least the create_event
\* of every accepted tagged package; it sleeps only while the repository is
\* behind one of them; if a package is accepted in neither place it raises
\* without a getRepo call.
PreBuildGate ==
    /\ gate.pc = "returned" =>
          /\ \A package \in DOMAIN gate.source :
                TagSuffices(package) \/ LocalSuffices(package)
          /\ \A e \in AcceptedEvents : repo_event >= e
          /\ AcceptedEvents # {} => gate.polls >= 1
    /\ gate.pc = "sleeping" =>
          /\ \A package \in DOMAIN gate.source :
                TagSuffices(package) \/ LocalSuffices(package)
          /\ gate.polls >= 1
    /\ gate.pc = "raised" =>
          /\ \E package \in DOMAIN gate.source :
                ~TagSuffices(package) /\ ~LocalSuffices(package)
          /\ gate.polls = 0
    /\ (\E package \in DOMAIN gate.source :
            ~TagSuffices(package) /\ ~LocalSuffices(package))
          => gate.pc \in {"check", "raised"}

PreBuildGateWitness ==
    /\ gate.pc = "returned"
    /\ gate.polls = 2
    /\ ~gate.allow_outdated
    /\ TagSuffices("A")
    /\ ~TagSuffices("B") /\ LocalSuffices("B")
    /\ gate.tagged["B"].create_event > gate.tagged["A"].create_event
    /\ gate.tagged["A"].create_event > 0
    /\ repo_event < gate.tagged["B"].create_event

====
